---- MODULE Spec2Model ----
(***************************************************************************)
(* A model of the bitmessage-rs node: the worker event loop, the protocol  *)
(* handler, the proof-of-work engine and the three repositories.           *)
(*                                                                         *)
(* Time is counted in days.  Hashes (SHA-256 of expires, signature and     *)
(* kind) are modelled by the injective record of the hashed fields; the    *)
(* base58 string of a hash by a tagged record.  SHA-512d, which yields the *)
(* trial value of a nonce, is modelled by a fixed mixing function, and the *)
(* 64-bit trial space is scaled to 30 bits so that the arithmetic of       *)
(* get_pow_target fits the integers of the model checker.                  *)
(***************************************************************************)
EXTENDS Integers, Sequences, FiniteSets, TLC

\* ------------------------------------------------------------------ bounds
MaxNow == 7
MaxInputs == 3
MaxHandlerInputs == 2
MaxSends == 2
MaxRestarts == 1
MaxInject == 1
MaxBatch == 2
MaxServes == 2
MaxNonce == 61

\* --------------------------------------------------------------- constants
NETWORK_MIN_NONCE_TRIALS_PER_BYTE == 1000
NETWORK_MIN_EXTRA_BYTES == 1000
CHANNEL_BUFFER == 3
MSG_TTL_DAYS == 7
PUBKEY_TTL_DAYS == 28
\* 86400 seconds per day and 2^16, both divided by 128: the quotient
\* (ttl_seconds * payload_bytes) / 2^16 is unchanged by the common factor.
DAY_SECONDS_DIV_128 == 86400 \div 128
TWO_POW_16_DIV_128 == (2^16) \div 128
\* 2^64 scaled to 2^30
TWO_POW_64 == 2^30

Nodes == {"A", "B"}
\* the nodes whose user sends messages
Clients == {"A"}
Env == "E"
Addrs == {"a", "b"}
NoNonce == -1

Owner(a) == IF a = "a" THEN "A" ELSE "B"
\* base58 of the tag derived from the ripe of an address
TagOf(a) == IF a = "a" THEN "tag_a" ELSE "tag_b"

Max(x, y) == IF x >= y THEN x ELSE y

\* ------------------------------------------------------------ data shapes
NoPlain == [wf |-> FALSE, sender |-> "", dest |-> "", keys |-> ""]
NoEnc == [key |-> "", eph |-> 0, plain |-> NoPlain]

\* ecies::encrypt: a ciphertext for `key` with a fresh ephemeral key `e`
Encrypt(key, plain, e) == [key |-> key, eph |-> e, plain |-> plain]
\* ecies::decrypt succeeds only with the secret key matching `enc.key`
Decrypts(enc, key) == enc.key # "" /\ enc.key = key

MsgKind(enc) == [type |-> "Msg", tag |-> "", encrypted |-> enc]
BroadcastKind(t, enc) == [type |-> "Broadcast", tag |-> t, encrypted |-> enc]
GetpubkeyKind(t) == [type |-> "Getpubkey", tag |-> t, encrypted |-> NoEnc]
PubkeyKind(t, enc) == [type |-> "Pubkey", tag |-> t, encrypted |-> enc]

object_type(kind) ==
    CASE kind.type = "Msg" -> 0
      [] kind.type = "Broadcast" -> 1
      [] kind.type = "Getpubkey" -> 2
      [] kind.type = "Pubkey" -> 3

\* length of serde_cbor::to_vec(kind): grows with the fields present
CborLen(kind) ==
    CASE kind.type = "Msg" -> 40
      [] kind.type = "Broadcast" -> 60
      [] kind.type = "Getpubkey" -> 20
      [] kind.type = "Pubkey" -> 50

\* SHA-256 over expires, signature and cbor(kind)
Sha256(expires, signature, kind) ==
    [expires |-> expires, signature |-> signature, kind |-> kind]

\* bs58::encode(hash).into_string()
Bs58(h) == [bs58 |-> TRUE, rand |-> 0, of |-> h]
\* Alphanumeric.sample_string(rng, 16)
RandomHash(i) == [bs58 |-> FALSE, rand |-> i,
                  of |-> Sha256(0, "", GetpubkeyKind(""))]

\* Object::new
ObjectNew(expires, signature, kind) ==
    [hash |-> Sha256(expires, signature, kind), nonce |-> NoNonce,
     expires |-> expires, signature |-> signature, kind |-> kind]

\* Object::with_signing: the hash is taken with an empty signature, then
\* the signature over that hash replaces it
ObjectWithSigning(identity, kind, expires) ==
    [ObjectNew(expires, "", kind) EXCEPT !.signature = identity]

\* ------------------------------------------------------------ proof of work
\* a number standing for the bytes of a hash, fed to SHA-512d
Digest(h) ==
    h.expires + 3 * object_type(h.kind) + 5 * h.kind.encrypted.eph
      + (IF h.signature = "" THEN 0 ELSE 7) + (IF h.kind.tag = "tag_b" THEN 2 ELSE 0)

\* first 8 bytes (big-endian) of SHA-512(SHA-512(nonce_be || initial_hash)),
\* an empty nonce reading as 0 (BigUint::from_bytes_be of no bytes); the
\* trial value 0, of probability 2^-64, is left out
Trial(nonce, initial_hash) ==
    (((Max(nonce, 0) * 37 + Digest(initial_hash) * 11) % 61) + 1) * 13

\* check_pow without the comparison
check_pow_unchecked(target, nonce, initial_hash) == "Ok"

check_pow(target, nonce, initial_hash) ==
    IF Trial(nonce, initial_hash) > target THEN "InsufficientProofOfWork" ELSE "Ok"

\* get_pow_target without the division of 2^64
get_pow_target_denominator(object, nonce_trials_per_byte, extra_bytes, t) ==
    LET ntpb == IF nonce_trials_per_byte = 0 THEN NETWORK_MIN_NONCE_TRIALS_PER_BYTE
                ELSE nonce_trials_per_byte
        extra == IF extra_bytes = 0 THEN NETWORK_MIN_EXTRA_BYTES ELSE extra_bytes
        payload_bytes == CborLen(object.kind) + extra + 8
        ttl == (object.expires - t) * DAY_SECONDS_DIV_128
    IN  IF object.expires < t THEN 0
        ELSE ntpb * (payload_bytes + ((ttl * payload_bytes) \div TWO_POW_16_DIV_128))

\* get_pow_target with the time elapsed in the place of the time remaining
get_pow_target_elapsed(object, nonce_trials_per_byte, extra_bytes, t) ==
    LET ntpb == IF nonce_trials_per_byte = 0 THEN NETWORK_MIN_NONCE_TRIALS_PER_BYTE
                ELSE nonce_trials_per_byte
        extra == IF extra_bytes = 0 THEN NETWORK_MIN_EXTRA_BYTES ELSE extra_bytes
        payload_bytes == CborLen(object.kind) + extra + 8
        ttl == t * DAY_SECONDS_DIV_128
    IN  TWO_POW_64 \div (ntpb * (payload_bytes + ((ttl * payload_bytes) \div TWO_POW_16_DIV_128)))

get_pow_target(object, nonce_trials_per_byte, extra_bytes, t) ==
    LET ntpb == IF nonce_trials_per_byte = 0 THEN NETWORK_MIN_NONCE_TRIALS_PER_BYTE
                ELSE nonce_trials_per_byte
        extra == IF extra_bytes = 0 THEN NETWORK_MIN_EXTRA_BYTES ELSE extra_bytes
        payload_bytes == CborLen(object.kind) + extra + 8
        ttl == (object.expires - t) * DAY_SECONDS_DIV_128
        denominator == ntpb * (payload_bytes + ((ttl * payload_bytes) \div TWO_POW_16_DIV_128))
    IN  \* (expires - now) as u64 of a negative difference is about 2^64: the
        \* denominator then exceeds 2^64 and the quotient is 0
        IF object.expires < t THEN 0 ELSE TWO_POW_64 \div denominator

\* the nonces a search can return: trial <= target
Qualifies(target, initial_hash) ==
    {n \in 1..MaxNonce : Trial(n, initial_hash) <= target}

\* do_pow: counts the nonce up from 1 until the trial is within the target
do_pow(target, initial_hash) ==
    CHOOSE n \in Qualifies(target, initial_hash) :
        \A m \in Qualifies(target, initial_hash) : n <= m

\* ------------------------------------------------------ inventory repository
SeqMap(F(_), s) == [i \in 1..Len(s) |-> F(s[i])]
Exists(s, P(_)) == \E i \in 1..Len(s) : P(s[i])
Range(s) == {s[i] : i \in 1..Len(s)}

deserialize_model(m) ==
    [hash |-> m.hash.of, nonce |-> m.nonce, expires |-> m.expires,
     signature |-> m.signature, kind |-> m.data]

RowHash(r) == r.hash

\* get with expires >= now
InventoryGetAtExpiry(inv, t) ==
    SeqMap(RowHash, SelectSeq(inv, LAMBDA r : r.expires >= t /\ r.nonce # NoNonce))

\* SELECT hash FROM inventory WHERE expires > now AND nonce IS NOT NULL
InventoryGet(inv, t) ==
    SeqMap(RowHash, SelectSeq(inv, LAMBDA r : r.expires > t /\ r.nonce # NoNonce))

\* get_object without the test of the nonce
get_object_any_nonce(inv, hash) ==
    SeqMap(deserialize_model, SelectSeq(inv, LAMBDA r : r.hash = hash))

\* SELECT * FROM inventory WHERE hash = ? AND nonce IS NOT NULL: the rows
\* found, deserialized (none for Ok(None), one for Ok(Some(object)))
get_object(inv, hash) ==
    SeqMap(deserialize_model,
           SelectSeq(inv, LAMBDA r : r.hash = hash /\ r.nonce # NoNonce))
HasObjectNever(inv, hash) == FALSE
HasObject(inv, hash) == get_object(inv, hash) # <<>>

\* a retain that drops nothing
get_missing_objects_all(inv, hashes) == hashes

\* retain the hashes for which SELECT hash FROM inventory WHERE hash = ? finds no row
get_missing_objects(inv, hashes) ==
    SelectSeq(hashes, LAMBDA h : ~Exists(inv, LAMBDA r : r.hash = h))

\* INSERT INTO inventory: fails on a row with the same primary key
StoreFails(inv, o) == Exists(inv, LAMBDA r : r.hash = Bs58(o.hash))
store_object(inv, o) ==
    Append(inv, [hash |-> Bs58(o.hash), nonce |-> o.nonce,
                 object_type |-> object_type(o.kind), data |-> o.kind,
                 expires |-> o.expires, signature |-> o.signature])

\* get_missing_pow_objects selecting the rows that have a nonce
get_missing_pow_objects_inverted(inv) ==
    SeqMap(deserialize_model, SelectSeq(inv, LAMBDA r : r.nonce # NoNonce))

\* SELECT * FROM inventory WHERE nonce IS NULL
get_missing_pow_objects(inv) ==
    SeqMap(deserialize_model, SelectSeq(inv, LAMBDA r : r.nonce = NoNonce))

\* an update that writes nothing
update_nonce_nothing(inv, hash, nonce) == inv

\* UPDATE inventory SET nonce = ? WHERE hash = ?
update_nonce(inv, hash, nonce) ==
    [i \in 1..Len(inv) |-> IF inv[i].hash = hash THEN [inv[i] EXCEPT !.nonce = nonce]
                           ELSE inv[i]]

\* a cleanup that keeps the rows expiring now
cleanup_before_now(inv, t) == SelectSeq(inv, LAMBDA r : r.expires >= t)

\* DELETE FROM inventory WHERE expires <= now
cleanup(inv, t) == SelectSeq(inv, LAMBDA r : r.expires > t)

\* -------------------------------------------------------- message repository
SaveFails(msgs, hash) == Exists(msgs, LAMBDA m : m.hash = hash)

\* INSERT INTO messages
save_model(msgs, model) == Append(msgs, model)

\* MessageRepository::save of a decrypted UnencryptedMsg
save(msgs, hash, msg, signature, i) ==
    Append(msgs, [id |-> i, hash |-> hash, sender |-> msg.sender,
                  recipient |-> msg.dest, status |-> "Received",
                  signature |-> signature])

\* update_message_status without the WHERE clause
update_message_status_all(msgs, hash, status) ==
    [i \in 1..Len(msgs) |-> [msgs[i] EXCEPT !.status = status]]

\* UPDATE messages SET status = ? WHERE hash = ?
update_message_status(msgs, hash, status) ==
    [i \in 1..Len(msgs) |-> IF msgs[i].hash = hash THEN [msgs[i] EXCEPT !.status = status]
                            ELSE msgs[i]]

\* an update of the hash that writes nothing
update_hash_nothing(msgs, old_hash, new_hash) == msgs

\* UPDATE messages SET hash = ? WHERE hash = ?
update_hash(msgs, old_hash, new_hash) ==
    [i \in 1..Len(msgs) |-> IF msgs[i].hash = old_hash THEN [msgs[i] EXCEPT !.hash = new_hash]
                            ELSE msgs[i]]

get_messages_by_status(msgs, status) == SelectSeq(msgs, LAMBDA m : m.status = status)
get_messages_by_recipient(msgs, address) == SelectSeq(msgs, LAMBDA m : m.recipient = address)

\* -------------------------------------------------------- address repository
\* a row: the address string, the tag, whose public keys it holds ("" for
\* none) and whether the private keys are present
AddressNew(a) == [address |-> a, tag |-> TagOf(a), pub |-> "", priv |-> FALSE]
Identity(a) == [address |-> a, tag |-> TagOf(a), pub |-> a, priv |-> TRUE]
Contact(a) == [address |-> a, tag |-> TagOf(a), pub |-> a, priv |-> FALSE]

\* SELECT * FROM addresses WHERE address = ? OR tag = ?  (first row)
HasAddress(addrs, hash) == Exists(addrs, LAMBDA r : r.address = hash \/ r.tag = hash)
get_by_ripe_or_tag(addrs, hash) ==
    SelectSeq(addrs, LAMBDA r : r.address = hash \/ r.tag = hash)[1]

\* SELECT * FROM addresses WHERE both private keys are present
get_identities(addrs) == SelectSeq(addrs, LAMBDA r : r.priv)

\* UPDATE addresses SET public keys WHERE address = ? OR tag = ?
update_public_keys(addrs, hash, keys) ==
    [i \in 1..Len(addrs) |->
        IF addrs[i].address = hash \/ addrs[i].tag = hash
        THEN [addrs[i] EXCEPT !.pub = keys] ELSE addrs[i]]

\* ------------------------------------------------------------------- state
VARIABLES
    now,              \* Utc::now(), in days
    fresh,            \* per node: source of ephemeral keys, random hashes, row ids
    addresses,        \* per node: the addresses table, in insertion order
    inventory,        \* per node: the inventory table
    messages,         \* per node: the messages table
    tracked_pubkeys,  \* per node: NodeWorker.tracked_pubkeys
    worker,           \* per node: where the NodeWorker task is
    engine,           \* per node: where the ProofOfWorkWorker task is
    command_channel,  \* per node: the WorkerCommand channel
    pow_channel,      \* per node: the ProofOfWorkWorkerCommand channel
    is_pow_running,   \* per node: ProofOfWorkWorker.is_pow_running
    waiting_objects,  \* per node: ProofOfWorkWorker.waiting_objects
    searches,         \* per node: the spawned PoW search tasks
    received,         \* per node: the last Objects message handed to the handler
    stalled,          \* per node: the objects left to the suspended handler call
    pubkey_notifier,  \* per node: the pubkey notification channel
    net,              \* network messages in flight
    recovered,        \* per node: what the engine's startup scan re-queued
    call,             \* the last call made on a function or a repository by itself
    budget,           \* how many sends, restarts and injections have happened
    pow,              \* the parallel nonce search of one AsyncPoW::do_pow call
    listen,           \* the listen addresses of a worker and its pending commands
    mpsc              \* the senders parked on the two channels of a node

vars == <<now, fresh, addresses, inventory, messages, tracked_pubkeys, worker,
          engine, command_channel, pow_channel, is_pow_running, waiting_objects,
          searches, received, stalled, pubkey_notifier, net, recovered, call,
          budget, pow, listen, mpsc>>

NoObject == ObjectNew(0, "", GetpubkeyKind(""))

\* WorkerCommand values
SendMessageCmd(from, to) ==
    [type |-> "SendMessage", from |-> from, to |-> to, obj |-> NoObject, inventory |-> <<>>]
NonceCalculatedCmd(o) ==
    [type |-> "NonceCalculated", from |-> "", to |-> "", obj |-> o, inventory |-> <<>>]
BroadcastMsgByPubSubCmd(inv) ==
    [type |-> "BroadcastMsgByPubSub", from |-> "", to |-> "", obj |-> NoObject, inventory |-> inv]

\* ProofOfWorkWorkerCommand values
EnqueuePoW(o) == [type |-> "EnqueuePoW", object |-> o]
PowNonceCalculated(o) == [type |-> "NonceCalculated", object |-> o]

\* NetworkMessage values travelling by gossip, as a request or as a response
NetMsg(via, from, to, command, inv, objs) ==
    [via |-> via, from |-> from, to |-> to, command |-> command,
     inventory |-> inv, objects |-> objs]

\* a futures mpsc channel holds its buffer plus one slot per sender; the
\* worker's channel is written by the client, the engine and the handler,
\* the engine's channel by the worker and the running search
WorkerChannelCapacity == CHANNEL_BUFFER + 3
PowChannelCapacity == CHANNEL_BUFFER + 2

\* ------------------------------------------------------------ the handler
\* The handler works on the state of one node, a record st:
\*   inv, msgs, addrs : the three repositories
\*   cmdq             : the worker's command channel (the handler's sink)
\*   spawned          : the searches the handler has spawned
\*   pc               : "running", or where the worker task got stuck
\*   fresh            : the source of fresh values
\*   stalled          : the objects still to handle when the call got stuck
\*   notifier         : the pubkey notification channel

\* Object::do_proof_of_work and the handler's own spawn: the target is
\* computed when the search is spawned
Search(o, via, t) ==
    [object |-> o, via |-> via,
     target |-> get_pow_target(o, NETWORK_MIN_NONCE_TRIALS_PER_BYTE,
                               NETWORK_MIN_EXTRA_BYTES, t)]

\* Handler::offer_inv: sends BroadcastMsgByPubSub to the worker and awaits
\* the reply; the worker is the caller, so the reply cannot come
\* (the handler's sender holds a slot of its own in the channel)
offer_inv(st, t) ==
    [st EXCEPT !.cmdq = Append(st.cmdq, BroadcastMsgByPubSubCmd(InventoryGet(st.inv, t))),
               !.pc = "blocked"]

\* Handler::handle_msg_object: the loop over the identities
RECURSIVE handle_msg_identities(_, _, _)
handle_msg_identities(st, identities, object) ==
    IF identities = <<>> THEN [st |-> st, result |-> "Ok"]
    ELSE LET i == Head(identities)
             encrypted == object.kind.encrypted
         IN  IF Decrypts(encrypted, i.address)
             THEN IF encrypted.plain.wf
                  THEN IF SaveFails(st.msgs, Bs58(object.hash))
                       THEN [st |-> [st EXCEPT !.pc = "panicked"], result |-> "Ok"]
                       ELSE handle_msg_identities(
                              [st EXCEPT !.msgs = save(st.msgs, Bs58(object.hash),
                                                       encrypted.plain, object.signature,
                                                       st.fresh),
                                         !.fresh = st.fresh + 1],
                              Tail(identities), object)
                  ELSE [st |-> st, result |-> "Err"]
             ELSE [st |-> st, result |-> "Ok"]

handle_msg_object(st, object) ==
    handle_msg_identities(st, get_identities(st.addrs), object)

\* a loop over the identities that answers none
handle_get_pubkey_nothing(st, identities, tag, t) == st

\* Handler::handle_get_pubkey_object: a Pubkey object for every identity
\* with the requested tag, each with a search spawned by the handler itself
RECURSIVE handle_get_pubkey_identities(_, _, _, _)
handle_get_pubkey_identities(st, identities, tag, t) ==
    IF identities = <<>> THEN st
    ELSE LET i == Head(identities)
             unencrypted_pubkey == [wf |-> TRUE, sender |-> "", dest |-> "", keys |-> i.pub]
             obj == ObjectNew(t + PUBKEY_TTL_DAYS, i.address,
                              PubkeyKind(i.tag, Encrypt(i.tag, unencrypted_pubkey, st.fresh)))
         IN  IF i.tag = tag
             THEN handle_get_pubkey_identities(
                    [st EXCEPT !.spawned = st.spawned \cup {Search(obj, "handler", t)},
                               !.fresh = st.fresh + 1],
                    Tail(identities), tag, t)
             ELSE handle_get_pubkey_identities(st, Tail(identities), tag, t)

handle_get_pubkey_object(st, object, t) ==
    [st |-> handle_get_pubkey_identities(st, get_identities(st.addrs), object.kind.tag, t),
     result |-> "Ok"]

\* the handler built by NodeWorker::new holds the sender of the pubkey
\* notification channel: after the keys of an address are updated it sends
\* the tag string to the worker
notify_pubkey(st, tag_str) == [st EXCEPT !.notifier = Append(st.notifier, tag_str)]

\* Handler::handle_pubkey_object
handle_pubkey_object(st, object) ==
    LET tag_str == object.kind.tag
        encrypted == object.kind.encrypted
    IN  IF ~HasAddress(st.addrs, tag_str) THEN [st |-> st, result |-> "Ok"]
        ELSE IF ~Decrypts(encrypted, get_by_ripe_or_tag(st.addrs, tag_str).tag)
             THEN [st |-> st, result |-> "Ok"]
        ELSE IF ~encrypted.plain.wf
             THEN [st |-> [st EXCEPT !.pc = "panicked"], result |-> "Ok"]
        ELSE [st |-> notify_pubkey(
                       [st EXCEPT !.addrs = update_public_keys(st.addrs, tag_str,
                                                               encrypted.plain.keys)],
                       tag_str),
              result |-> "Ok"]

\* the dispatch by kind at the end of the loop body of handle_objects
dispatch_object(st, obj, t) ==
    CASE obj.kind.type = "Msg" -> handle_msg_object(st, obj)
      [] obj.kind.type = "Broadcast" -> [st |-> st, result |-> "Err"]
      [] obj.kind.type = "Getpubkey" -> handle_get_pubkey_object(st, obj, t)
      [] obj.kind.type = "Pubkey" -> handle_pubkey_object(st, obj)

\* the loop body of handle_objects from the return of offer_inv on
after_offer_inv(st, obj, t) == dispatch_object(st, obj, t).st

\* one iteration of the loop of Handler::handle_objects
handle_one_object(st, obj, t) ==
    LET hash_str == Bs58(obj.hash)
        target == get_pow_target(obj, NETWORK_MIN_NONCE_TRIALS_PER_BYTE,
                                 NETWORK_MIN_EXTRA_BYTES, t)
    IN  IF HasObject(st.inv, hash_str) THEN st
        ELSE IF check_pow(target, obj.nonce, obj.hash) # "Ok" THEN st
        ELSE IF StoreFails(st.inv, obj) THEN [st EXCEPT !.pc = "panicked"]
        ELSE LET offered == offer_inv([st EXCEPT !.inv = store_object(st.inv, obj)], t)
             IN  IF offered.pc # "running" THEN offered
                 ELSE after_offer_inv(offered, obj, t)

\* Handler::handle_objects
RECURSIVE handle_objects(_, _, _)
handle_objects(st, objects, t) ==
    IF objects = <<>> \/ st.pc # "running" THEN st
    ELSE LET next == handle_one_object(st, Head(objects), t)
         IN  IF next.pc = "blocked" THEN [next EXCEPT !.stalled = objects]
             ELSE handle_objects(next, Tail(objects), t)

\* Handler::handle_get_data: the requested objects the node has
handle_get_data(inv, hashes) ==
    SeqMap(LAMBDA h : get_object(inv, h)[1],
           SelectSeq(hashes, LAMBDA h : get_object(inv, h) # <<>>))

\* Handler::handle_inv: the hashes to ask for
handle_inv(inv, hashes) == get_missing_objects(inv, hashes)

\* ----------------------------------------------------------- the node worker
\* the state of node n as one record (the handler's st is this record)
NodeState(n) ==
    [addrs |-> addresses[n], inv |-> inventory[n], msgs |-> messages[n],
     tracked |-> tracked_pubkeys[n], pc |-> worker[n], epc |-> engine[n],
     cmdq |-> command_channel[n], powq |-> pow_channel[n],
     running |-> is_pow_running[n], waiting |-> waiting_objects[n],
     spawned |-> searches[n], received |-> received[n], stalled |-> stalled[n],
     notifier |-> pubkey_notifier[n], rec |-> recovered[n],
     fresh |-> fresh[n], out |-> {}]

Commit(n, ns, rest) ==
    /\ addresses' = [addresses EXCEPT ![n] = ns.addrs]
    /\ inventory' = [inventory EXCEPT ![n] = ns.inv]
    /\ messages' = [messages EXCEPT ![n] = ns.msgs]
    /\ tracked_pubkeys' = [tracked_pubkeys EXCEPT ![n] = ns.tracked]
    /\ worker' = [worker EXCEPT ![n] = ns.pc]
    /\ engine' = [engine EXCEPT ![n] = ns.epc]
    /\ command_channel' = [command_channel EXCEPT ![n] = ns.cmdq]
    /\ pow_channel' = [pow_channel EXCEPT ![n] = ns.powq]
    /\ is_pow_running' = [is_pow_running EXCEPT ![n] = ns.running]
    /\ waiting_objects' = [waiting_objects EXCEPT ![n] = ns.waiting]
    /\ searches' = [searches EXCEPT ![n] = ns.spawned]
    /\ received' = [received EXCEPT ![n] = ns.received]
    /\ stalled' = [stalled EXCEPT ![n] = ns.stalled]
    /\ pubkey_notifier' = [pubkey_notifier EXCEPT ![n] = ns.notifier]
    /\ recovered' = [recovered EXCEPT ![n] = ns.rec]
    /\ fresh' = [fresh EXCEPT ![n] = ns.fresh]
    /\ net' = rest \cup ns.out

\* create_object_from_msg unwraps the recipient's public encryption key and
\* the identity's public signing key, Object::with_signing the identity's
\* private signing key
CreateObjectPanics(identity, recipient) ==
    recipient.pub = "" \/ identity.pub = "" \/ ~identity.priv

create_object_from_msg(identity, recipient, msg, t, e) ==
    ObjectWithSigning(identity.address,
        MsgKind(Encrypt(recipient.pub,
                        [wf |-> TRUE, sender |-> msg.sender, dest |-> msg.recipient,
                         keys |-> ""], e)),
        t + MSG_TTL_DAYS)

\* NodeWorker::enqueue_pow: sends EnqueuePoW and expects the send to succeed
worker_enqueue_pow(ns, object) ==
    IF ns.epc = "panicked" THEN [ns EXCEPT !.pc = "panicked"]
    ELSE [ns EXCEPT !.powq = Append(ns.powq, EnqueuePoW(object))]

\* NodeWorker::publish_pubsub: the message reaches the subscribed peers
publish_pubsub(ns, n, inv) ==
    [ns EXCEPT !.out = ns.out \cup
        {NetMsg("gossip", n, p, "Inv", inv, <<>>) : p \in Nodes \ {n}}]

\* WorkerCommand::SendMessage
send_message(ns, from, to, t) ==
    IF ~HasAddress(ns.addrs, from) THEN [ns EXCEPT !.pc = "panicked"]
    ELSE
    LET identity == get_by_ripe_or_tag(ns.addrs, from)
        msg == [id |-> ns.fresh, hash |-> RandomHash(0), sender |-> from,
                recipient |-> to, status |-> "Unknown", signature |-> ""]
    IN  IF HasAddress(ns.addrs, to)
        THEN LET v == get_by_ripe_or_tag(ns.addrs, to)
                 object == create_object_from_msg(identity, v, msg, t, ns.fresh)
             IN  IF CreateObjectPanics(identity, v) THEN [ns EXCEPT !.pc = "panicked"]
                 ELSE worker_enqueue_pow(
                        [ns EXCEPT !.msgs = save_model(ns.msgs,
                                       [msg EXCEPT !.status = "WaitingForPOW",
                                                   !.hash = Bs58(object.hash)]),
                                   !.fresh = ns.fresh + 1],
                        object)
        ELSE LET recipient_address == AddressNew(to)
                 stored == [ns EXCEPT
                              !.addrs = Append(ns.addrs, recipient_address),
                              !.msgs = save_model(ns.msgs,
                                          [msg EXCEPT !.status = "WaitingForPubkey",
                                                      !.hash = RandomHash(ns.fresh)]),
                              !.tracked = ns.tracked \cup {recipient_address.tag},
                              !.fresh = ns.fresh + 1]
                 obj == ObjectWithSigning(identity.address,
                                          GetpubkeyKind(TagOf(to)), t + MSG_TTL_DAYS)
             IN  IF ~identity.priv THEN [stored EXCEPT !.pc = "panicked"]
                 ELSE worker_enqueue_pow(stored, obj)

\* WorkerCommand::NonceCalculated: the message of a Msg object becomes Sent
mark_sent(ns, obj) ==
    IF obj.kind.type = "Msg"
    THEN [ns EXCEPT !.msgs = update_message_status(ns.msgs, Bs58(obj.hash), "Sent")]
    ELSE ns

\* WorkerCommand::NonceCalculated
nonce_calculated(ns, n, obj, t) ==
    LET marked == mark_sent(ns, obj)
    IN  publish_pubsub(marked, n, InventoryGet(marked.inv, t))

\* WorkerCommand::NonceCalculated when publish_pubsub returns Err: the
\* error is logged
nonce_calculated_publish_err(ns, obj) == mark_sent(ns, obj)

\* WorkerCommand::BroadcastMsgByPubSub when publish_pubsub returns Err: the
\* error is sent back, offer_inv returns it and handle_objects expects Ok
broadcast_publish_err(ns) == [ns EXCEPT !.pc = "panicked"]

\* NodeWorker::handle_command
handle_command(ns, n, command, t) ==
    CASE command.type = "SendMessage" -> send_message(ns, command.from, command.to, t)
      [] command.type = "NonceCalculated" -> nonce_calculated(ns, n, command.obj, t)
      [] command.type = "BroadcastMsgByPubSub" -> publish_pubsub(ns, n, command.inventory)

\* NodeWorker::handle_pubkey_notification: the messages waiting for the key
RECURSIVE notify_messages(_, _, _, _)
notify_messages(ns, msgs, addr, t) ==
    IF msgs = <<>> \/ ns.pc # "running" THEN ns
    ELSE LET x == Head(msgs)
         IN  IF ~HasAddress(ns.addrs, x.sender) THEN [ns EXCEPT !.pc = "panicked"]
             ELSE LET identity == get_by_ripe_or_tag(ns.addrs, x.sender)
                      object == create_object_from_msg(identity, addr, x, t, ns.fresh)
                      new_hash == Bs58(object.hash)
                  IN  IF CreateObjectPanics(identity, addr)
                      THEN [ns EXCEPT !.pc = "panicked"]
                      ELSE notify_messages(
                             worker_enqueue_pow(
                               [ns EXCEPT !.msgs = update_message_status(
                                             update_hash(ns.msgs, x.hash, new_hash),
                                             new_hash, "WaitingForPOW"),
                                          !.fresh = ns.fresh + 1],
                               object),
                             Tail(msgs), addr, t)

handle_pubkey_notification(ns, tag, t) ==
    IF tag \notin ns.tracked THEN ns
    ELSE IF ~HasAddress(ns.addrs, tag) THEN [ns EXCEPT !.pc = "panicked"]
    ELSE LET addr == get_by_ripe_or_tag(ns.addrs, tag)
             waiting == SelectSeq(get_messages_by_recipient(ns.msgs, addr.address),
                                  LAMBDA x : x.status = "WaitingForPubkey")
             done == notify_messages(ns, waiting, addr, t)
         IN  IF done.pc # "running" THEN done
             ELSE [done EXCEPT !.tracked = done.tracked \ {tag}]

\* a scan that tracks nothing and moves nothing
startup_scan_nothing(ns, msgs) == ns

\* NodeWorker::run before the loop: the scan of the messages waiting for a
\* pubkey, then the cleanup of the expired objects
RECURSIVE startup_scan(_, _)
startup_scan(ns, msgs) ==
    IF msgs = <<>> THEN ns
    ELSE LET m == Head(msgs)
         IN  IF ~HasAddress(ns.addrs, m.recipient) THEN [ns EXCEPT !.pc = "panicked"]
             ELSE IF get_by_ripe_or_tag(ns.addrs, m.recipient).pub # ""
             THEN startup_scan([ns EXCEPT !.msgs = update_message_status(
                                              ns.msgs, m.hash, "WaitingForPOW")],
                               Tail(msgs))
             ELSE startup_scan([ns EXCEPT !.tracked = ns.tracked \cup
                                    {get_by_ripe_or_tag(ns.addrs, m.recipient).tag}],
                               Tail(msgs))

worker_startup(ns, t) ==
    LET scanned == startup_scan(ns, get_messages_by_status(ns.msgs, "WaitingForPubkey"))
    IN  IF scanned.pc = "panicked" THEN scanned
        ELSE [scanned EXCEPT !.inv = cleanup(scanned.inv, t), !.pc = "running"]

\* Handler::handle_message: the reply, if any, to a NetworkMessage
Reply(ns, m, t) ==
    CASE m.command = "GetData" ->
            [some |-> TRUE, command |-> "Objects", inventory |-> <<>>,
             objects |-> handle_get_data(ns.inv, m.inventory)]
      [] m.command = "Inv" ->
            [some |-> handle_inv(ns.inv, m.inventory) # <<>>, command |-> "GetData",
             inventory |-> handle_inv(ns.inv, m.inventory), objects |-> <<>>]
      [] m.command = "ReqInv" ->
            [some |-> TRUE, command |-> "Inv", inventory |-> InventoryGet(ns.inv, t),
             objects |-> <<>>]
      [] m.command = "Objects" ->
            [some |-> FALSE, command |-> "", inventory |-> <<>>, objects |-> <<>>]

\* NodeWorker::handle_event once the handler has returned: a request is
\* answered on its channel and the reply is unwrapped; the reply to a
\* response or to a gossip message is sent as a new request
after_handler(handled, n, m, r) ==
    IF handled.pc # "running" THEN handled
    ELSE IF ~r.some
         THEN IF m.via = "request" THEN [handled EXCEPT !.pc = "panicked"] ELSE handled
    ELSE [handled EXCEPT !.out = handled.out \cup
            {NetMsg(IF m.via = "request" THEN "response" ELSE "request",
                    n, m.from, r.command, r.inventory, r.objects)}]

\* NodeWorker::handle_event for a request when send_response returns Err:
\* the result is unwrapped
after_handler_send_err(handled, r) ==
    IF handled.pc # "running" THEN handled ELSE [handled EXCEPT !.pc = "panicked"]

\* NodeWorker::handle_event for a request, a response or a gossip message
handle_event(ns, n, m, t) ==
    LET handled == IF m.command = "Objects"
                   THEN handle_objects([ns EXCEPT !.received = [via |-> m.via,
                                                                objects |-> m.objects]],
                                       m.objects, t)
                   ELSE ns
    IN  after_handler(handled, n, m, Reply(ns, m, t))

\* the handler call suspended in offer_inv, once the reply to its
\* BroadcastMsgByPubSub has come: the rest of the loop body for the object
\* just stored, then the rest of the batch
resume_handler(ns, n, t) ==
    LET m == NetMsg(ns.received.via, Env, n, "Objects", <<>>, ns.received.objects)
        first == after_offer_inv([ns EXCEPT !.pc = "running", !.stalled = <<>>],
                                 Head(ns.stalled), t)
    IN  after_handler(handle_objects(first, Tail(ns.stalled), t), n, m, Reply(ns, m, t))

\* ---------------------------------------------------- the proof-of-work engine
\* ProofOfWorkWorker::enqueue_pow
enqueue_pow(ns, object, t) ==
    IF ns.running THEN [ns EXCEPT !.waiting = Append(ns.waiting, object)]
    ELSE [ns EXCEPT !.spawned = ns.spawned \cup {Search(object, "queue", t)},
                    !.running = TRUE]

RECURSIVE enqueue_all(_, _, _)
enqueue_all(ns, objects, t) ==
    IF objects = <<>> THEN ns
    ELSE enqueue_all(enqueue_pow(ns, Head(objects), t), Tail(objects), t)

\* ProofOfWorkWorker::run before the loop: the messages waiting for PoW
RECURSIVE requeue_messages(_, _, _)
requeue_messages(ns, msgs, t) ==
    IF msgs = <<>> \/ ns.epc = "panicked" THEN ns
    ELSE LET m == Head(msgs)
         IN  IF ~HasAddress(ns.addrs, m.sender) \/ ~HasAddress(ns.addrs, m.recipient)
             THEN [ns EXCEPT !.epc = "panicked"]
             ELSE LET identity == get_by_ripe_or_tag(ns.addrs, m.sender)
                      recipient == get_by_ripe_or_tag(ns.addrs, m.recipient)
                      obj == create_object_from_msg(identity, recipient, m, t, ns.fresh)
                  IN  IF CreateObjectPanics(identity, recipient) \/ StoreFails(ns.inv, obj)
                      THEN [ns EXCEPT !.epc = "panicked"]
                      ELSE requeue_messages(
                             enqueue_pow(
                               [ns EXCEPT !.msgs = update_hash(ns.msgs, m.hash, Bs58(obj.hash)),
                                          !.inv = store_object(ns.inv, obj),
                                          !.fresh = ns.fresh + 1],
                               obj, t),
                             Tail(msgs), t)

engine_startup(ns, t) ==
    LET objects == get_missing_pow_objects(ns.inv)
        msgs == get_messages_by_status(ns.msgs, "WaitingForPOW")
        noted == [ns EXCEPT !.rec = [objects |-> {r.hash : r \in {q \in Range(ns.inv) :
                                                                  q.nonce = NoNonce}},
                                     msgs |-> {m.id : m \in Range(msgs)},
                                     done |-> TRUE]]
        done == requeue_messages(enqueue_all(noted, objects, t), msgs, t)
    IN  IF done.epc = "panicked" THEN done ELSE [done EXCEPT !.epc = "running"]

\* ProofOfWorkWorker::run, one command of the loop
engine_command(ns, command, t) ==
    IF command.type = "EnqueuePoW"
    THEN IF StoreFails(ns.inv, command.object) THEN [ns EXCEPT !.epc = "panicked"]
         ELSE enqueue_pow([ns EXCEPT !.inv = store_object(ns.inv, command.object)],
                          command.object, t)
    ELSE LET updated == [ns EXCEPT !.inv = update_nonce(ns.inv, Bs58(command.object.hash),
                                                        command.object.nonce)]
         IN  IF updated.pc = "panicked" THEN [updated EXCEPT !.epc = "panicked"]
             ELSE LET sent == [updated EXCEPT
                                 !.cmdq = Append(updated.cmdq,
                                                 NonceCalculatedCmd(command.object))]
                  IN  IF sent.waiting # <<>>
                      THEN [sent EXCEPT !.waiting = Tail(sent.waiting),
                                        !.spawned = sent.spawned \cup
                                            {Search(Head(sent.waiting), "queue", t)}]
                      ELSE [sent EXCEPT !.running = FALSE]

\* the task spawned by Object::do_proof_of_work, or by the handler for a
\* Pubkey object, once its search has found a nonce
search_done(ns, s) ==
    LET found == [s.object EXCEPT !.nonce = do_pow(s.target, s.object.hash)]
        rest == [ns EXCEPT !.spawned = ns.spawned \ {s}]
    IN  IF s.via = "queue"
        THEN IF rest.epc = "panicked" THEN rest
             ELSE [rest EXCEPT !.powq = Append(rest.powq, PowNonceCalculated(found))]
        ELSE IF rest.pc = "panicked" THEN rest
             ELSE [rest EXCEPT !.cmdq = Append(rest.cmdq, NonceCalculatedCmd(found))]

\* ------------------------------------------------------------------ actions
NoRecovery == [objects |-> {}, msgs |-> {}, done |-> FALSE]
NoBatch == <<>>
\* no AsyncPoW::do_pow call has been made
NoSearch == [phase |-> "idle"]
\* no listen address yet, no GetListenerAddress issued
NoListen == [listeners |-> <<>>, pending_commands |-> <<>>, answers |-> <<>>,
             issued |-> 0]
\* no sender is parked, the worker has nothing to enqueue, the engine has
\* no NonceCalculated to pass on
NoParked == [command |-> <<>>, pow |-> <<>>, iter |-> 0, flushing |-> FALSE,
             notified |-> 0]
NoMessage == [via |-> "", objects |-> <<>>]
NoCall == [op |-> "", hashes |-> <<>>, inventory |-> <<>>, sqlite |-> <<>>,
           memory |-> <<>>, made |-> FALSE]

Init ==
    /\ now = 0
    /\ fresh = [n \in Nodes |-> 1]
    /\ \E known \in BOOLEAN :
         addresses = [n \in Nodes |->
                        IF n = "A"
                        THEN IF known THEN <<Identity("a"), Contact("b")>>
                             ELSE <<Identity("a")>>
                        ELSE <<Identity("b")>>]
    /\ inventory = [n \in Nodes |-> <<>>]
    /\ messages = [n \in Nodes |-> <<>>]
    /\ tracked_pubkeys = [n \in Nodes |-> {}]
    /\ worker = [n \in Nodes |-> "running"]
    /\ engine = [n \in Nodes |-> "running"]
    /\ command_channel = [n \in Nodes |-> <<>>]
    /\ pow_channel = [n \in Nodes |-> <<>>]
    /\ is_pow_running = [n \in Nodes |-> FALSE]
    /\ waiting_objects = [n \in Nodes |-> <<>>]
    /\ searches = [n \in Nodes |-> {}]
    /\ received = [n \in Nodes |-> NoMessage]
    /\ stalled = [n \in Nodes |-> NoBatch]
    /\ pubkey_notifier = [n \in Nodes |-> <<>>]
    /\ net = {}
    /\ recovered = [n \in Nodes |-> NoRecovery]
    /\ call = NoCall
    /\ budget = [sends |-> 0, restarts |-> 0, injects |-> 0, serves |-> 0, total |-> 0]
    /\ pow = NoSearch
    /\ listen = NoListen
    /\ mpsc = NoParked

\* NodeWorker::run up to the event loop
WorkerStartup(n) ==
    /\ worker[n] = "startup"
    /\ Commit(n, worker_startup(NodeState(n), now), net)
    /\ UNCHANGED <<now, call, budget>>
    /\ UNCHANGED <<pow, listen, mpsc>>

\* ProofOfWorkWorker::run up to its loop
EngineStartup(n) ==
    /\ engine[n] = "startup"
    /\ Commit(n, engine_startup(NodeState(n), now), net)
    /\ UNCHANGED <<now, call, budget>>
    /\ UNCHANGED <<pow, listen, mpsc>>

\* the client facade sends SendMessage on the command channel
ClientSendMessage(n) ==
    /\ budget.sends < MaxSends
    /\ budget.total < MaxInputs
    /\ worker[n] # "panicked"
    /\ Len(command_channel[n]) < WorkerChannelCapacity
    /\ \E from \in Addrs, to \in Addrs :
         command_channel' = [command_channel EXCEPT
                               ![n] = Append(@, SendMessageCmd(from, to))]
    /\ budget' = [budget EXCEPT !.sends = @ + 1, !.total = @ + 1]
    /\ UNCHANGED <<now, fresh, addresses, inventory, messages, tracked_pubkeys, worker,
                   engine, pow_channel, is_pow_running, waiting_objects, searches,
                   received, stalled, pubkey_notifier, net, recovered, call>>
    /\ UNCHANGED <<pow, listen, mpsc>>

\* the loop of NodeWorker::run takes the next command
HandleCommand(n) ==
    /\ worker[n] = "running"
    /\ command_channel[n] # <<>>
    /\ Len(pow_channel[n]) < PowChannelCapacity
    /\ Commit(n, handle_command([NodeState(n) EXCEPT !.cmdq = Tail(command_channel[n])],
                                n, Head(command_channel[n]), now), net)
    /\ UNCHANGED <<now, call, budget>>
    /\ UNCHANGED <<pow, listen, mpsc>>

\* the loop of NodeWorker::run takes the next network event
HandleEvent(n) ==
    /\ worker[n] = "running"
    /\ \E m \in net :
         /\ m.to = n
         /\ Commit(n, handle_event(NodeState(n), n, m, now), net \ {m})
    /\ UNCHANGED <<now, call, budget>>
    /\ UNCHANGED <<pow, listen, mpsc>>

\* the loop of ProofOfWorkWorker::run takes the next command
EngineCommand(n) ==
    /\ engine[n] = "running"
    /\ pow_channel[n] # <<>>
    /\ Len(command_channel[n]) < WorkerChannelCapacity
    /\ Commit(n, engine_command([NodeState(n) EXCEPT !.powq = Tail(pow_channel[n])],
                                Head(pow_channel[n]), now), net)
    /\ UNCHANGED <<now, call, budget>>
    /\ UNCHANGED <<pow, listen, mpsc>>

\* a search finds its nonce
SearchDone(n) ==
    /\ \E s \in searches[n] :
         /\ Qualifies(s.target, s.object.hash) # {}
         /\ IF s.via = "queue" THEN Len(pow_channel[n]) < PowChannelCapacity
            ELSE Len(command_channel[n]) < WorkerChannelCapacity
         /\ Commit(n, search_done(NodeState(n), s), net)
    /\ UNCHANGED <<now, call, budget>>
    /\ UNCHANGED <<pow, listen, mpsc>>

\* the process is stopped and started again: the database stays
Restart(n) ==
    /\ budget.restarts < MaxRestarts
    /\ budget.total < MaxInputs
    /\ worker[n] # "startup"
    /\ engine[n] # "startup"
    /\ Commit(n, [NodeState(n) EXCEPT !.tracked = {}, !.pc = "startup",
                    !.epc = "startup", !.cmdq = <<>>, !.powq = <<>>,
                    !.running = FALSE, !.waiting = <<>>, !.spawned = {},
                    !.received = NoMessage, !.stalled = NoBatch, !.notifier = <<>>, !.rec = NoRecovery],
              net)
    /\ budget' = [budget EXCEPT !.restarts = @ + 1, !.total = @ + 1]
    /\ UNCHANGED <<now, call>>
    /\ UNCHANGED <<pow, listen, mpsc>>

\* time passes
Tick ==
    /\ now + MSG_TTL_DAYS <= MaxNow
    /\ budget.total < MaxInputs
    /\ now' = now + MSG_TTL_DAYS
    /\ budget' = [budget EXCEPT !.total = @ + 1]
    /\ UNCHANGED <<fresh, addresses, inventory, messages, tracked_pubkeys, worker,
                   engine, command_channel, pow_channel, is_pow_running,
                   waiting_objects, searches, received, stalled, pubkey_notifier, net,
                   recovered, call>>
    /\ UNCHANGED <<pow, listen, mpsc>>

\* objects made by a peer outside the two nodes, each with its PoW done
Worked(o, t) ==
    [o EXCEPT !.nonce = do_pow(get_pow_target(o, NETWORK_MIN_NONCE_TRIALS_PER_BYTE,
                                              NETWORK_MIN_EXTRA_BYTES, t), o.hash)]

PeerMsg(to, wf, t) ==
    ObjectNew(t + MSG_TTL_DAYS, "e",
              MsgKind(Encrypt(to, [wf |-> wf, sender |-> "e", dest |-> to, keys |-> ""], 0)))
PeerPubkey(a, wf, t) ==
    ObjectNew(t + PUBKEY_TTL_DAYS, "e",
              PubkeyKind(TagOf(a), Encrypt(TagOf(a),
                            [wf |-> wf, sender |-> "", dest |-> "", keys |-> a], 0)))
PeerGetpubkey(a, t) == ObjectNew(t + MSG_TTL_DAYS, "e", GetpubkeyKind(TagOf(a)))
PeerBroadcast(t) == ObjectNew(t + MSG_TTL_DAYS, "e", BroadcastKind("tag_e", NoEnc))

PeerObjects(t) ==
    {Worked(PeerMsg("b", TRUE, t), t), Worked(PeerMsg("b", FALSE, t), t),
     Worked(PeerPubkey("b", TRUE, t), t), Worked(PeerPubkey("b", FALSE, t), t),
     Worked(PeerGetpubkey("b", t), t), Worked(PeerBroadcast(t), t),
     \* nonce bytes encoding 0, and no nonce at all
     [PeerMsg("b", TRUE, t) EXCEPT !.nonce = 0],
     [PeerGetpubkey("b", t) EXCEPT !.nonce = NoNonce]}

Batches(S) == UNION {[1..k -> S] : k \in 1..MaxBatch}

\* the hash lists a peer may send: hashes of rows of the node and a hash
\* the node has never seen
PeerHashes(n) == Range(SeqMap(RowHash, inventory[n])) \cup {Bs58(PeerBroadcast(now).hash)}

PeerMessages(n) ==
    {NetMsg(via, Env, n, "ReqInv", <<>>, <<>>) : via \in {"request", "gossip"}}
    \cup {NetMsg(via, Env, n, c, hs, <<>>) :
            via \in {"request", "gossip"}, c \in {"Inv", "GetData"},
            hs \in Batches(PeerHashes(n))}
    \cup {NetMsg(via, Env, n, "Objects", <<>>, objs) :
            via \in {"request", "gossip"}, objs \in Batches(PeerObjects(now))}

\* the loop of NodeWorker::run takes a request or a gossip message of a peer
\* outside the two nodes
PeerEvent(n) ==
    /\ worker[n] = "running"
    /\ budget.injects < MaxInject
    /\ budget.total < MaxInputs
    /\ \E m \in PeerMessages(n) : Commit(n, handle_event(NodeState(n), n, m, now), net)
    /\ budget' = [budget EXCEPT !.injects = @ + 1, !.total = @ + 1]
    /\ UNCHANGED <<now, call>>
    /\ UNCHANGED <<pow, listen, mpsc>>

\* mDNS discovers peer p: NodeWorker::on_new_peer sends it ReqInv
Discovered(n) ==
    /\ worker[n] = "running"
    /\ budget.injects < MaxInject
    /\ budget.total < MaxInputs
    /\ \E p \in Nodes \ {n} :
         net' = net \cup {NetMsg("request", n, p, "ReqInv", <<>>, <<>>)}
    /\ budget' = [budget EXCEPT !.injects = @ + 1, !.total = @ + 1]
    /\ UNCHANGED <<now, fresh, addresses, inventory, messages, tracked_pubkeys, worker,
                   engine, command_channel, pow_channel, is_pow_running,
                   waiting_objects, searches, received, stalled, pubkey_notifier,
                   recovered, call>>
    /\ UNCHANGED <<pow, listen, mpsc>>

\* the loop of NodeWorker::run takes a pubkey notification
HandlePubkeyNotification(n) ==
    /\ worker[n] = "running"
    /\ pubkey_notifier[n] # <<>>
    /\ Len(pow_channel[n]) < PowChannelCapacity
    /\ Commit(n, handle_pubkey_notification(
                    [NodeState(n) EXCEPT !.notifier = Tail(pubkey_notifier[n])],
                    Head(pubkey_notifier[n]), now), net)
    /\ UNCHANGED <<now, call, budget>>
    /\ UNCHANGED <<pow, listen, mpsc>>

\* the command channel read by a task of its own while the worker is
\* suspended in the handler: the commands are handled as the worker handles
\* them, and the reply to BroadcastMsgByPubSub lets the handler go on
ServeSink(n) ==
    /\ worker[n] = "blocked"
    /\ command_channel[n] # <<>>
    /\ Len(pow_channel[n]) < PowChannelCapacity
    /\ budget.serves < MaxServes
    /\ budget' = [budget EXCEPT !.serves = @ + 1]
    /\ LET command == Head(command_channel[n])
           served == handle_command([NodeState(n) EXCEPT
                                       !.cmdq = Tail(command_channel[n]),
                                       !.pc = "running"],
                                    n, command, now)
       IN  Commit(n, IF served.pc # "running" THEN served
                     ELSE IF command.type = "BroadcastMsgByPubSub"
                     THEN resume_handler(served, n, now)
                     ELSE [served EXCEPT !.pc = "blocked"],
                  net)
    /\ UNCHANGED <<now, call>>
    /\ UNCHANGED <<pow, listen, mpsc>>

\* the steps of the tasks of the nodes
Internal ==
    \/ \E n \in Nodes : WorkerStartup(n)
    \/ \E n \in Nodes : EngineStartup(n)
    \/ \E n \in Nodes : HandleCommand(n)
    \/ \E n \in Nodes : HandleEvent(n)
    \/ \E n \in Nodes : EngineCommand(n)
    \/ \E n \in Nodes : SearchDone(n)

\* the steps of the user, of the peers outside and of the clock
Inputs ==
    \/ \E n \in Clients : ClientSendMessage(n)
    \/ \E n \in Nodes : Restart(n)
    \/ \E n \in Nodes : PeerEvent(n)
    \/ \E n \in Nodes : Discovered(n)
    \/ Tick

Next == Internal \/ Inputs

Spec == Init /\ [][Next]_vars

\* the node with the handler's sink served and the notifications handled
HandlerNext ==
    \/ Internal
    \/ budget.total < MaxHandlerInputs /\ Inputs
    \/ \E n \in Nodes : ServeSink(n)
    \/ \E n \in Nodes : HandlePubkeyNotification(n)

HandlerSpec == Init /\ [][HandlerNext]_vars

\* ------------------------------------------- the repositories on their own
\* MemoryInventoryRepository::get_missing_objects: retain keeps the hashes
\* for which the map has an entry
memory_get_missing_objects(inv, hashes) ==
    SelectSeq(hashes, LAMBDA h : Exists(inv, LAMBDA r : r.hash = h))

MaxRows == 2

\* an object, with or without its nonce, is stored in the inventory
RepoStore(n) ==
    /\ Len(inventory[n]) < MaxRows
    /\ \E o \in PeerObjects(now) :
         /\ ~StoreFails(inventory[n], o)
         /\ inventory' = [inventory EXCEPT ![n] = store_object(@, o)]
    /\ UNCHANGED <<now, fresh, addresses, messages, tracked_pubkeys, worker, engine,
                   command_channel, pow_channel, is_pow_running, waiting_objects,
                   searches, received, stalled, pubkey_notifier, net, recovered,
                   call, budget>>
    /\ UNCHANGED <<pow, listen, mpsc>>

\* get_missing_objects is called with a hash list, on either repository
RepoGetMissing(n) ==
    /\ \E hashes \in Batches(PeerHashes(n)) :
         call' = [op |-> "get_missing_objects", hashes |-> hashes,
                  inventory |-> inventory[n],
                  sqlite |-> get_missing_objects(inventory[n], hashes),
                  memory |-> memory_get_missing_objects(inventory[n], hashes),
                  made |-> TRUE]
    /\ UNCHANGED <<now, fresh, addresses, inventory, messages, tracked_pubkeys, worker,
                   engine, command_channel, pow_channel, is_pow_running,
                   waiting_objects, searches, received, stalled, pubkey_notifier, net,
                   recovered, budget>>
    /\ UNCHANGED <<pow, listen, mpsc>>

\* the rows_affected of DELETE FROM inventory WHERE expires <= ?
rows_affected(inv, t) == Len(SelectSeq(inv, LAMBDA r : r.expires <= t))

\* cleanup is called on the inventory
RepoCleanup(n) ==
    /\ inventory' = [inventory EXCEPT ![n] = cleanup(@, now)]
    /\ call' = [op |-> "cleanup", made |-> TRUE, now |-> now, before |-> inventory[n],
                after |-> cleanup(inventory[n], now),
                count |-> rows_affected(inventory[n], now)]
    /\ UNCHANGED <<now, fresh, addresses, messages, tracked_pubkeys, worker, engine,
                   command_channel, pow_channel, is_pow_running, waiting_objects,
                   searches, received, stalled, pubkey_notifier, net, recovered, budget>>
    /\ UNCHANGED <<pow, listen, mpsc>>

RepoNext ==
    \/ \E n \in Clients : RepoStore(n)
    \/ \E n \in Clients : RepoGetMissing(n)
    \/ \E n \in Clients : RepoCleanup(n)
    \/ Tick

RepoSpec == Init /\ [][RepoNext]_vars

\* ------------------------------------------------------------------ claims
Rows(n) == Range(inventory[n])
Messages(n) == Range(messages[n])
RowHasNonce(inv, h) == \E r \in Range(inv) : r.hash = h /\ r.nonce # NoNonce
Target(o, t) ==
    get_pow_target(o, NETWORK_MIN_NONCE_TRIALS_PER_BYTE, NETWORK_MIN_EXTRA_BYTES, t)
BadPow(o, t) == Trial(o.nonce, o.hash) > Target(o, t)
Broadcasts(q) == Len(SelectSeq(q, LAMBDA c : c.type = "BroadcastMsgByPubSub"))

\* node n has nothing left to do: no task of it can take a step
Settled(n) ==
    /\ worker[n] # "startup"
    /\ engine[n] # "startup"
    /\ worker[n] = "running" =>
         command_channel[n] = <<>> /\ ~\E m \in net : m.to = n
    /\ engine[n] = "running" => pow_channel[n] = <<>>
    /\ \A s \in searches[n] : Qualifies(s.target, s.object.hash) = {}

\* C1: every hash of an Inv a node sends and every object of an Objects
\* reply it sends belongs to a row of its inventory with a nonce, also while
\* rows without a nonce wait for their proof of work.
C1_SentObjectsHavePow ==
    [][\A m \in net' \ net :
          m.from \in Nodes =>
            /\ m.command = "Inv" =>
                 \A i \in 1..Len(m.inventory) :
                    RowHasNonce(inventory'[m.from], m.inventory[i])
            /\ m.command = "Objects" =>
                 \A i \in 1..Len(m.objects) :
                    /\ m.objects[i].nonce # NoNonce
                    /\ RowHasNonce(inventory'[m.from], Bs58(m.objects[i].hash))]_vars

C1_Witness ==
    \E n \in Nodes :
        /\ \E r \in Rows(n) : r.nonce = NoNonce
        /\ searches[n] # {}
        /\ \E m \in net : m.from = n /\ m.command = "Inv" /\ m.inventory # <<>>

\* C6: a hash is in the inventory returned by get exactly when its row has
\* a nonce and expires after now.
C6_AdvertisedIffNonceAndUnexpired ==
    \A n \in Nodes :
        /\ \A r \in Rows(n) :
              r.hash \in Range(InventoryGet(inventory[n], now))
                <=> (r.nonce # NoNonce /\ r.expires > now)
        /\ \A h \in Range(InventoryGet(inventory[n], now)) : \E r \in Rows(n) : r.hash = h

C6_Witness ==
    \E n \in Nodes : \E r \in Rows(n) :
        /\ r.nonce # NoNonce
        /\ r.expires = now
        /\ r.hash \notin Range(InventoryGet(inventory[n], now))

\* C8: a received object whose nonce fails check_pow is not stored, and no
\* Inv is offered for it: a row that appears with a nonce passes the check
\* at the time it is stored, and a BroadcastMsgByPubSub is issued only with
\* such a row.
C8_BadPowNotStored ==
    [][\A n \in Nodes :
          LET new == {r \in Range(inventory'[n]) :
                        r.nonce # NoNonce /\ ~\E q \in Rows(n) : q.hash = r.hash}
          IN  /\ \A r \in new : ~BadPow(deserialize_model(r), now)
              /\ received'[n] # received[n] =>
                   \A o \in Range(received'[n].objects) :
                      BadPow(o, now) =>
                        ~\E r \in new : r.hash = Bs58(o.hash) /\ r.nonce = o.nonce
              /\ Broadcasts(command_channel'[n]) > Broadcasts(command_channel[n]) =>
                   new # {}]_vars

C8_Witness ==
    \E n \in Nodes :
        /\ worker[n] = "running"
        /\ received[n].objects # <<>>
        /\ \E o \in Range(received[n].objects) :
              /\ BadPow(o, now)
              /\ ~\E r \in Rows(n) : r.hash = Bs58(o.hash)
        /\ Broadcasts(command_channel[n]) = 0

\* the worker and the engine of node n run and have nothing pending
Quiet(n) ==
    /\ worker[n] = "running"
    /\ engine[n] = "running"
    /\ command_channel[n] = <<>>
    /\ pow_channel[n] = <<>>
    /\ searches[n] = {}
    /\ waiting_objects[n] = <<>>

\* the row of hash h, while the cleanup has not deleted it, has its nonce
\* and is advertised until it expires
Recovered(n, h) ==
    \A r \in Rows(n) :
        r.hash = h =>
          /\ r.nonce # NoNonce
          /\ r.expires > now => h \in Range(InventoryGet(inventory[n], now))

\* C9: after a restart, once the searches of the recovery have completed,
\* every row that had no nonce has one and is advertised while it has not
\* expired, and every message that was WaitingForPOW is Sent, the object
\* built for it having its nonce and being advertised likewise.
C9_RestartRecovery ==
    \A n \in Nodes :
        (recovered[n].done /\ Quiet(n)) =>
          /\ \A h \in recovered[n].objects : Recovered(n, h)
          /\ \A m \in Messages(n) :
                m.id \in recovered[n].msgs => m.status = "Sent" /\ Recovered(n, m.hash)

\* the same without the proviso of expiry: at that point every recovered
\* object is advertised and every recovered message is Sent
C9_RecoveredAlwaysAdvertised ==
    \A n \in Nodes :
        (recovered[n].done /\ Quiet(n)) =>
          /\ \A h \in recovered[n].objects :
                h \in Range(InventoryGet(inventory[n], now))
          /\ \A m \in Messages(n) :
                m.id \in recovered[n].msgs =>
                  m.status = "Sent" /\ m.hash \in Range(InventoryGet(inventory[n], now))

C9_Witness ==
    \E n \in Nodes :
        /\ recovered[n].done
        /\ Quiet(n)
        /\ \E h \in recovered[n].objects : h \in Range(InventoryGet(inventory[n], now))
        /\ \E m \in Messages(n) :
              /\ m.id \in recovered[n].msgs
              /\ m.status = "Sent"
              /\ m.hash \in Range(InventoryGet(inventory[n], now))

\* the Pubkey object carrying the keys of address a is in the inventory of n
PubkeyDelivered(n, a) ==
    \E r \in Rows(n) :
        /\ r.data.type = "Pubkey"
        /\ r.data.tag = TagOf(a)
        /\ r.nonce # NoNonce
        /\ Decrypts(r.data.encrypted, TagOf(a))
        /\ r.data.encrypted.plain.wf

\* the steps a status may take
StatusStep(old, new) ==
    \/ new = old
    \/ old = "WaitingForPubkey" /\ new = "WaitingForPOW"
    \/ old = "WaitingForPOW" /\ new = "Sent"

C3_PubkeyDeliveryLeadsToSent ==
    \A m \in Messages("A") :
        (Settled("A") /\ PubkeyDelivered("A", m.recipient)) =>
          m.status # "WaitingForPubkey"

\* C4: when B holds, with its nonce, a Msg object that A made for b, and B
\* has nothing left to do, B has exactly one Received message with the hash
\* of the object and sender a.
C4_TwoNodeDelivery ==
    \A r \in Rows("B") :
        (/\ Settled("B")
         /\ r.data.type = "Msg"
         /\ r.signature = "a"
         /\ Decrypts(r.data.encrypted, "b")
         /\ r.nonce # NoNonce) =>
          Cardinality({m \in Messages("B") :
                         m.status = "Received" /\ m.sender = "a" /\ m.hash = r.hash}) = 1

\* C7: get_missing_objects(H) is H without the hashes of the inventory, in
\* both repositories.
MissingExpected ==
    SelectSeq(call.hashes, LAMBDA h : ~\E r \in Range(call.inventory) : r.hash = h)

C7_MissingIsDifference ==
    call.made => call.sqlite = MissingExpected /\ call.memory = MissingExpected

\* an error of one object: bad PoW, an unsupported kind, or bad CBOR after
\* the decryption of a Msg or of a Pubkey
ObjectLevelError(n, o, t) ==
    \/ BadPow(o, t)
    \/ o.kind.type = "Broadcast"
    \/ /\ o.kind.type = "Msg"
       /\ \E i \in Range(get_identities(addresses[n])) :
             Decrypts(o.kind.encrypted, i.address)
       /\ ~o.kind.encrypted.plain.wf
    \/ /\ o.kind.type = "Pubkey"
       /\ \E r \in Range(addresses[n]) :
             r.tag = o.kind.tag /\ Decrypts(o.kind.encrypted, r.tag)
       /\ ~o.kind.encrypted.plain.wf

\* C10: after an Objects batch with an object-level error the worker keeps
\* running and the objects of the batch that pass check_pow are stored.
C10_ErrorDropsOnlyTheObject ==
    \A n \in Nodes :
        (\E o \in Range(received[n].objects) : ObjectLevelError(n, o, now)) =>
          /\ worker[n] = "running"
          /\ \A o \in Range(received[n].objects) :
                ~BadPow(o, now) => \E r \in Rows(n) : r.hash = Bs58(o.hash)

\* ------------------------------------------ the identities of a node (C11)
MaxIdentities == 3
NewAddrs == {"c", "d"}

\* Address::generate: a new address with its tag and both key pairs
Generate(a) ==
    [address |-> a, tag |-> IF a = "c" THEN "tag_c" ELSE "tag_d", pub |-> a, priv |-> TRUE]

\* INSERT INTO addresses
address_store(addrs, a) == Append(addrs, a)

\* WorkerCommand::GenerateIdentity
GenerateIdentity(n) ==
    /\ Len(addresses[n]) < MaxIdentities
    /\ \E a \in NewAddrs :
         /\ ~HasAddress(addresses[n], a)
         /\ addresses' = [addresses EXCEPT ![n] = address_store(@, Generate(a))]
    /\ UNCHANGED <<now, fresh, inventory, messages, tracked_pubkeys, worker, engine,
                   command_channel, pow_channel, is_pow_running, waiting_objects,
                   searches, received, stalled, pubkey_notifier, net, recovered,
                   call, budget>>
    /\ UNCHANGED <<pow, listen, mpsc>>

\* the handler is given a Msg object encrypted for some address
HandleMsgObject(n) ==
    /\ worker[n] = "running"
    /\ Len(messages[n]) < MaxRows
    /\ \E to \in Addrs \cup NewAddrs, wf \in BOOLEAN :
         LET object == PeerMsg(to, wf, now)
             r == handle_msg_object(NodeState(n), object)
         IN  /\ messages' = [messages EXCEPT ![n] = r.st.msgs]
             /\ fresh' = [fresh EXCEPT ![n] = r.st.fresh]
             /\ worker' = [worker EXCEPT ![n] = r.st.pc]
             /\ call' = [op |-> "handle_msg_object", made |-> TRUE,
                         identities |-> get_identities(addresses[n]),
                         object |-> object, before |-> messages[n],
                         after |-> r.st.msgs, result |-> r.result, pc |-> r.st.pc]
    /\ UNCHANGED <<now, addresses, inventory, tracked_pubkeys, engine,
                   command_channel, pow_channel, is_pow_running, waiting_objects,
                   searches, received, stalled, pubkey_notifier, net, recovered,
                   budget>>
    /\ UNCHANGED <<pow, listen, mpsc>>

IdentityNext ==
    \/ \E n \in Nodes : GenerateIdentity(n)
    \/ \E n \in Nodes : HandleMsgObject(n)

IdentitySpec == Init /\ [][IdentityNext]_vars

\* C11: a Msg object encrypted for any identity of the node, well formed
\* and not yet in the messages table, is saved as a Received message
\* whatever the position of that identity; an object for none of the
\* identities is dropped without an error and without a write.
C11_AnyIdentityReceives ==
    call.op = "handle_msg_object" =>
      LET enc == call.object.kind.encrypted
          hash == Bs58(call.object.hash)
          mine == \E i \in Range(call.identities) : Decrypts(enc, i.address)
      IN  /\ (mine /\ enc.plain.wf /\ ~SaveFails(call.before, hash)) =>
                \E m \in Range(call.after) : m.hash = hash /\ m.status = "Received"
          /\ ~mine => call.result = "Ok" /\ call.after = call.before

\* ------------------------------------------- transport errors (C12)
MaxTransportInputs == 1

Failure(what, n, pc) == [op |-> "transport", made |-> TRUE, what |-> what, node |-> n,
                         pc |-> pc]

\* the worker takes a NonceCalculated command and gossipsub refuses the Inv
NonceCalculatedPublishFails(n) ==
    /\ worker[n] = "running"
    /\ command_channel[n] # <<>>
    /\ Head(command_channel[n]).type = "NonceCalculated"
    /\ LET ns == nonce_calculated_publish_err(
                   [NodeState(n) EXCEPT !.cmdq = Tail(command_channel[n])],
                   Head(command_channel[n]).obj)
       IN  /\ Commit(n, ns, net)
           /\ call' = Failure("NonceCalculated", n, ns.pc)
    /\ UNCHANGED <<now, budget>>
    /\ UNCHANGED <<pow, listen, mpsc>>

\* the BroadcastMsgByPubSub of offer_inv is served and gossipsub refuses the
\* Inv
OfferInvPublishFails(n) ==
    /\ worker[n] = "blocked"
    /\ command_channel[n] # <<>>
    /\ Head(command_channel[n]).type = "BroadcastMsgByPubSub"
    /\ LET ns == broadcast_publish_err(
                   [NodeState(n) EXCEPT !.cmdq = Tail(command_channel[n])])
       IN  /\ Commit(n, ns, net)
           /\ call' = Failure("offer_inv", n, ns.pc)
    /\ UNCHANGED <<now, budget>>
    /\ UNCHANGED <<pow, listen, mpsc>>

\* the worker takes an inbound request whose response channel has been
\* closed by the time the reply is sent
SendResponseFails(n) ==
    /\ worker[n] = "running"
    /\ \E m \in net :
         /\ m.to = n
         /\ m.via = "request"
         /\ m.command # "Objects"
         /\ LET ns == after_handler_send_err(NodeState(n), Reply(NodeState(n), m, now))
            IN  /\ Commit(n, ns, net \ {m})
                /\ call' = Failure("send_response", n, ns.pc)
    /\ UNCHANGED <<now, budget>>
    /\ UNCHANGED <<pow, listen, mpsc>>

TransportNext ==
    \/ Internal
    \/ budget.total < MaxTransportInputs /\ Inputs
    \/ \E n \in Nodes : ServeSink(n)
    \/ \E n \in Nodes : NonceCalculatedPublishFails(n)
    \/ \E n \in Nodes : OfferInvPublishFails(n)
    \/ \E n \in Nodes : SendResponseFails(n)

TransportSpec == Init /\ [][TransportNext]_vars

\* C12: the worker is still running after a failed publish of the Inv of
\* NonceCalculated, a failed publish of the Inv offered after a received
\* object was stored, and a failed send of the reply to an inbound request.
C12_TransportErrorKeepsRunning ==
    call.op = "transport" => call.pc = "running"

\* ------------------------- the writes of the worker and of the engine (C13)
MaxWriteInputs == 2

\* WorkerCommand::SendMessage for a recipient that is not in the address
\* table, up to its first write: address_repo.store(recipient_address)
SendMessageBegin(n) ==
    /\ worker[n] = "running"
    /\ command_channel[n] # <<>>
    /\ Len(pow_channel[n]) < PowChannelCapacity
    /\ LET command == Head(command_channel[n])
       IN  /\ command.type = "SendMessage"
           /\ HasAddress(addresses[n], command.from)
           /\ ~HasAddress(addresses[n], command.to)
           /\ addresses' = [addresses EXCEPT
                              ![n] = address_store(@, AddressNew(command.to))]
           /\ call' = [op |-> "SendMessage", made |-> TRUE, node |-> n,
                       command |-> command, addresses |-> addresses[n],
                       inventory |-> inventory[n], messages |-> messages[n]]
    /\ command_channel' = [command_channel EXCEPT ![n] = Tail(@)]
    /\ worker' = [worker EXCEPT ![n] = "in_send_message"]
    /\ UNCHANGED <<now, fresh, inventory, messages, tracked_pubkeys, engine,
                   pow_channel, is_pow_running, waiting_objects, searches, received,
                   stalled, pubkey_notifier, net, recovered, budget>>
    /\ UNCHANGED <<pow, listen, mpsc>>

\* the rest of the same call: messages_repo.save_model, tracked_pubkeys and
\* the Getpubkey object sent to the engine
SendMessageEnd(n) ==
    /\ worker[n] = "in_send_message"
    /\ call.op = "SendMessage"
    /\ call.node = n
    /\ Len(pow_channel[n]) < PowChannelCapacity
    /\ Commit(n, send_message([NodeState(n) EXCEPT !.addrs = call.addresses,
                                                   !.pc = "running"],
                              call.command.from, call.command.to, now), net)
    /\ call' = [call EXCEPT !.op = "SendMessage done"]
    /\ UNCHANGED <<now, budget>>
    /\ UNCHANGED <<pow, listen, mpsc>>

WriteNext ==
    \/ Internal
    \/ budget.total < MaxWriteInputs /\ Inputs
    \/ \E n \in Nodes : SendMessageBegin(n)
    \/ \E n \in Nodes : SendMessageEnd(n)

WriteSpec == Init /\ [][WriteNext]_vars

\* C13: the writes of the engine do not come between the writes of one
\* worker command: while the worker is between the two writes of
\* SendMessage, the inventory and the messages table are as they were at
\* its first write.
C13_EngineWritesDoNotInterleave ==
    \A n \in Nodes :
        (worker[n] = "in_send_message" /\ call.op = "SendMessage" /\ call.node = n) =>
          inventory[n] = call.inventory /\ messages[n] = call.messages

\* ------------------------------------------------------- shutdown (C14)
MaxShutdownInputs == 1

\* the command channel of node n has been closed by NodeClient::shutdown
Closed(n) == call.op = "shutdown" /\ call.node = n

\* NodeClient::shutdown: close_channel on the command sender
Shutdown(n) ==
    /\ call.op # "shutdown"
    /\ worker[n] \in {"running", "blocked"}
    /\ call' = [op |-> "shutdown", made |-> TRUE, node |-> n, pc |-> worker[n]]
    /\ UNCHANGED <<now, fresh, addresses, inventory, messages, tracked_pubkeys, worker,
                   engine, command_channel, pow_channel, is_pow_running,
                   waiting_objects, searches, received, stalled, pubkey_notifier, net,
                   recovered, budget>>
    /\ UNCHANGED <<pow, listen, mpsc>>

\* the loop takes a command that was buffered when the channel was closed
DrainCommand(n) ==
    /\ Closed(n)
    /\ HandleCommand(n)

\* command_receiver.next() is None: the loop returns
WorkerReturn(n) ==
    /\ Closed(n)
    /\ worker[n] = "running"
    /\ command_channel[n] = <<>>
    /\ worker' = [worker EXCEPT ![n] = "returned"]
    /\ UNCHANGED <<now, fresh, addresses, inventory, messages, tracked_pubkeys, engine,
                   command_channel, pow_channel, is_pow_running, waiting_objects,
                   searches, received, stalled, pubkey_notifier, net, recovered, call,
                   budget>>
    /\ UNCHANGED <<pow, listen, mpsc>>

\* Handler::offer_inv on a closed channel: the send of BroadcastMsgByPubSub
\* fails and is expected to succeed; `offered` is the handler at the send
offer_inv_closed(offered, cmdq) ==
    [offered EXCEPT !.cmdq = cmdq, !.pc = "panicked", !.stalled = NoBatch]

\* the select takes a swarm event although the channel is closed
EventAfterClose(n) ==
    /\ Closed(n)
    /\ worker[n] = "running"
    /\ budget.injects < MaxInject
    /\ \E m \in PeerMessages(n) :
         LET ns == handle_event(NodeState(n), n, m, now)
         IN  Commit(n, IF ns.pc = "blocked"
                       THEN offer_inv_closed(ns, command_channel[n]) ELSE ns,
                    net)
    /\ budget' = [budget EXCEPT !.injects = @ + 1]
    /\ UNCHANGED <<now, call>>
    /\ UNCHANGED <<pow, listen, mpsc>>

ShutdownNext ==
    \/ call.op # "shutdown" /\ Internal
    \/ call.op # "shutdown" /\ budget.total < MaxShutdownInputs /\ Inputs
    \/ \E n \in Nodes : Shutdown(n)
    \/ \E n \in Nodes : DrainCommand(n)
    \/ \E n \in Nodes : WorkerReturn(n)
    \/ \E n \in Nodes : EventAfterClose(n)

ShutdownSpec == Init /\ [][ShutdownNext]_vars

\* C14: once the command channel of a live worker is closed, the worker is
\* either still taking what the loop has ready or has returned: it is
\* neither stuck in a handler nor failed.
C14_ClosedChannelEndsWorker ==
    \A n \in Nodes : Closed(n) => worker[n] \in {"running", "returned"}

\* the same for a worker that was idle in its loop when the channel was
\* closed
C14_IdleWorkerAtClose ==
    \A n \in Nodes : (Closed(n) /\ call.pc = "running") => worker[n] \in {"running", "returned"}

\* ------------------------------------- proof of work by itself (C15, C18)
\* a byte, scaled to two bits as 2^64 is scaled to 2^30
BYTE == 4
MaxNonceBytes == 3

\* the trial value do_pow starts from, 99999999999999999999: above 2^64
INITIAL_TRIAL_VALUE == TWO_POW_64 + (TWO_POW_64 - 1)

\* the digits from the least significant one
RECURSIVE to_bytes_le(_)
to_bytes_le(n) ==
    IF n < BYTE THEN <<n>> ELSE <<n % BYTE>> \o to_bytes_le(n \div BYTE)

\* BigUint::to_bytes_be: the digits from the most significant one, a single
\* zero byte for 0
RECURSIVE to_bytes_be(_)
to_bytes_be(n) ==
    IF n < BYTE THEN <<n>> ELSE Append(to_bytes_be(n \div BYTE), n % BYTE)

\* BigUint::from_bytes_be: no bytes read as 0
RECURSIVE from_bytes_be(_)
from_bytes_be(b) ==
    IF b = <<>> THEN 0
    ELSE from_bytes_be(SubSeq(b, 1, Len(b) - 1)) * BYTE + b[Len(b)]

\* the nonce bytes of a stored or received object read as the number that
\* check_pow takes
decode_nonce(bytes) == from_bytes_be(bytes)

\* do_pow: the pair it returns; the loop is not entered when the target is
\* not below the initial trial value
do_pow_result(target, initial_hash) ==
    IF INITIAL_TRIAL_VALUE <= target THEN [trial |-> INITIAL_TRIAL_VALUE, nonce |-> 0]
    ELSE [trial |-> Trial(do_pow(target, initial_hash), initial_hash),
          nonce |-> do_pow(target, initial_hash)]

DoPowReturns(target, initial_hash) ==
    INITIAL_TRIAL_VALUE <= target \/ Qualifies(target, initial_hash) # {}

PowObjects ==
    PeerObjects(now) \cup
    {ObjectWithSigning(a, GetpubkeyKind(TagOf(b)), now + MSG_TTL_DAYS) : a, b \in Addrs}

PowTargets ==
    {get_pow_target(o, NETWORK_MIN_NONCE_TRIALS_PER_BYTE, NETWORK_MIN_EXTRA_BYTES, now) :
       o \in PowObjects}
    \cup {0, Trial(1, NoObject.hash) - 1, Trial(1, NoObject.hash), 13, 26, 793,
          TWO_POW_64, INITIAL_TRIAL_VALUE}

NonceBytes == UNION {[1..k -> 0..(BYTE - 1)] : k \in 0..MaxNonceBytes}

\* do_pow is called and its nonce is encoded as Object::do_proof_of_work
\* does
DoPow ==
    /\ ~call.made
    /\ \E target \in PowTargets, o \in PowObjects :
         /\ DoPowReturns(target, o.hash)
         /\ LET r == do_pow_result(target, o.hash)
            IN  call' = [op |-> "do_pow", made |-> TRUE, target |-> target,
                         hash |-> o.hash, trial |-> r.trial, nonce |-> r.nonce,
                         bytes |-> to_bytes_be(r.nonce)]
    /\ UNCHANGED <<now, fresh, addresses, inventory, messages, tracked_pubkeys, worker,
                   engine, command_channel, pow_channel, is_pow_running,
                   waiting_objects, searches, received, stalled, pubkey_notifier, net,
                   recovered, budget>>
    /\ UNCHANGED <<pow, listen, mpsc>>

\* check_pow is called on the nonce bytes of an object
CheckPow ==
    /\ ~call.made
    /\ \E target \in PowTargets, o \in PowObjects, bytes \in NonceBytes :
         call' = [op |-> "check_pow", made |-> TRUE, target |-> target, hash |-> o.hash,
                  nonce |-> decode_nonce(bytes), bytes |-> bytes,
                  result |-> check_pow(target, decode_nonce(bytes), o.hash)]
    /\ UNCHANGED <<now, fresh, addresses, inventory, messages, tracked_pubkeys, worker,
                   engine, command_channel, pow_channel, is_pow_running,
                   waiting_objects, searches, received, stalled, pubkey_notifier, net,
                   recovered, budget>>
    /\ UNCHANGED <<pow, listen, mpsc>>

\* the nonce_trials_per_byte values of a call, 0 asking for the network minimum
TrialsPerByte == {0, 500, NETWORK_MIN_NONCE_TRIALS_PER_BYTE, 2000}

\* the clock readings of a call: they give the object its remaining TTL
TargetTimes(t) == {t, t + 1, t + MSG_TTL_DAYS, t + PUBKEY_TTL_DAYS + 1}

\* get_pow_target is called for one object at two clock readings and with
\* two nonce_trials_per_byte values; target[i][j] is the target at the i-th
\* reading with the j-th value
GetPowTarget ==
    /\ ~call.made
    /\ \E o \in PowObjects, t1, t2 \in TargetTimes(now), n1, n2 \in TrialsPerByte :
         call' = [op |-> "get_pow_target", made |-> TRUE, object |-> o,
                  ttl |-> <<o.expires - t1, o.expires - t2>>,
                  nonce_trials_per_byte |-> <<n1, n2>>,
                  target |-> [i \in 1..2 |-> [j \in 1..2 |->
                                get_pow_target(o, <<n1, n2>>[j], 0, <<t1, t2>>[i])]]]
    /\ UNCHANGED <<now, fresh, addresses, inventory, messages, tracked_pubkeys, worker,
                   engine, command_channel, pow_channel, is_pow_running,
                   waiting_objects, searches, received, stalled, pubkey_notifier, net,
                   recovered, budget>>
    /\ UNCHANGED <<pow, listen, mpsc>>

PowNext ==
    \/ DoPow
    \/ CheckPow
    \/ GetPowTarget
    \/ Tick

PowSpec == Init /\ [][PowNext]_vars

\* C15: the pair returned by do_pow has trial <= target and its nonce is
\* accepted by check_pow for the same target and initial hash, as a number
\* and after the round trip through its big-endian bytes; and check_pow
\* returns Ok only when the trial of (nonce, initial hash) is <= target.
C15_PowRoundTrip ==
    /\ call.op = "do_pow" =>
         /\ call.trial <= call.target
         /\ check_pow(call.target, call.nonce, call.hash) = "Ok"
         /\ check_pow(call.target, decode_nonce(call.bytes), call.hash) = "Ok"
    /\ call.op = "check_pow" =>
         (call.result = "Ok" => Trial(call.nonce, call.hash) <= call.target)

\* a search whose nonce takes more than one byte, and a target that the
\* search met only after several nonces
C15_Witness ==
    /\ call.op = "do_pow"
    /\ Len(call.bytes) > 1
    /\ call.trial <= call.target
    /\ check_pow(call.target, 1, call.hash) # "Ok"

C19_HashOfOwnFields ==
    /\ \A n \in Nodes : \A r \in Rows(n) :
          r.hash.bs58 => r.hash.of = Sha256(r.expires, r.signature, r.data)
    /\ \A m \in net :
          m.command = "Objects" =>
            \A i \in 1..Len(m.objects) :
               m.objects[i].hash = Sha256(m.objects[i].expires, m.objects[i].signature,
                                          m.objects[i].kind)

\* C20: after cleanup no row has expires <= now, every row with
\* expires > now is still there as it was and in its order, and the count
\* returned is the number of rows removed.
C20_CleanupPostcondition ==
    call.op = "cleanup" =>
      /\ \A r \in Range(call.after) : r.expires > call.now
      /\ call.after = SelectSeq(call.before, LAMBDA r : ~(r.expires <= call.now))
      /\ \A r \in Range(call.before) : r.expires > call.now => r \in Range(call.after)
      /\ call.count = Len(call.before) - Len(call.after)

\* a cleanup that removed a row expiring exactly now and kept another
C20_Witness ==
    /\ call.op = "cleanup"
    /\ call.count = 1
    /\ \E r \in Range(call.before) : r.expires = call.now
    /\ Len(call.after) = 1

\* ------------------------------------ the parallel nonce search (C16, C17)
\* pow is the state of one call of AsyncPoW::do_pow:
\*   target, hash : its arguments
\*   w            : per search worker, where the task is (pc), its nonce, its
\*                  trial value and its termination channel: "none" when
\*                  nothing was sent, "sent" when the signal is in it, "gone"
\*                  when the signal was taken or the sender dropped
\*   internal     : the results in the internal channel; closed: its
\*                  receiver was closed or dropped
\*   manager      : the task that selects between the cancellation and the
\*                  first result
\*   receiver     : the caller's end of the result channel
\*   result       : what the caller received
NumOfCores == 2
MaxSearchNonce == 8

SearchWorkers == 0..(NumOfCores - 1)

node_vars == <<now, fresh, addresses, inventory, messages, tracked_pubkeys, worker,
               engine, command_channel, pow_channel, is_pow_running, waiting_objects,
               searches, received, stalled, pubkey_notifier, net, recovered, call,
               budget, listen, mpsc>>

NoResult == [some |-> FALSE, trial |-> 0, nonce |-> 0]

\* a try_recv that fails on the signal and on nothing else
try_recv_is_err_on_signal(term) == term = "sent"

\* term_rx.try_recv(): Err(Canceled) once the signal was taken or the
\* sender dropped; Ok(Some(())) takes the signal
try_recv_is_err(term) == term = "gone"
after_try_recv(term) == IF term = "sent" THEN "gone" ELSE term

\* a manager that does not signal
term_send_nothing(term) == term

\* w.send(()) of the manager
term_send(term) == IF term = "none" THEN "sent" ELSE term

\* a worker that does not advance
next_nonce_same(nonce) == nonce

\* nonce += num_of_cores; the nonces above MaxSearchNonce are not tried
next_nonce(nonce) ==
    IF nonce + NumOfCores <= MaxSearchNonce THEN nonce + NumOfCores ELSE nonce

SearchHashes == {NoObject.hash, ObjectNew(1, "", GetpubkeyKind("")).hash}
SearchTargets ==
    {0, 13, Trial(5, NoObject.hash), Trial(2, NoObject.hash), INITIAL_TRIAL_VALUE}

Stopped(i) == pow.w[i].pc \in {"done", "panicked"}

\* AsyncPoW::do_pow: the workers and the manager are spawned
StartSearch ==
    /\ pow.phase = "idle"
    /\ \E target \in SearchTargets, hash \in SearchHashes :
         pow' = [phase |-> "searching", target |-> target, hash |-> hash,
                 w |-> [i \in SearchWorkers |->
                          [pc |-> "check", nonce |-> i, trial |-> INITIAL_TRIAL_VALUE,
                           term |-> "none"]],
                 internal |-> <<>>, closed |-> FALSE, manager |-> "select",
                 receiver |-> "held", result |-> NoResult]
    /\ UNCHANGED node_vars

\* while trial_value > t && !term_rx.try_recv().is_err()
WorkerCheck(i) ==
    /\ pow.phase = "searching"
    /\ pow.w[i].pc = "check"
    /\ pow' = IF pow.w[i].trial > pow.target
              THEN [pow EXCEPT !.w[i].term = after_try_recv(@),
                               !.w[i].pc = IF try_recv_is_err(pow.w[i].term)
                                           THEN "after" ELSE "body"]
              ELSE [pow EXCEPT !.w[i].pc = "after"]
    /\ UNCHANGED node_vars

\* the body of the loop
WorkerBody(i) ==
    /\ pow.phase = "searching"
    /\ pow.w[i].pc = "body"
    /\ pow' = [pow EXCEPT !.w[i].nonce = next_nonce(@),
                          !.w[i].trial = Trial(next_nonce(pow.w[i].nonce), pow.hash),
                          !.w[i].pc = "check"]
    /\ UNCHANGED node_vars

\* if !term_rx.try_recv().is_err()
WorkerAfter(i) ==
    /\ pow.phase = "searching"
    /\ pow.w[i].pc = "after"
    /\ pow' = [pow EXCEPT !.w[i].term = after_try_recv(@),
                          !.w[i].pc = IF try_recv_is_err(pow.w[i].term)
                                      THEN "done" ELSE "send"]
    /\ UNCHANGED node_vars

\* s.send((trial_value, nonce)).await.unwrap()
WorkerSend(i) ==
    /\ pow.phase = "searching"
    /\ pow.w[i].pc = "send"
    /\ pow' = IF pow.closed THEN [pow EXCEPT !.w[i].pc = "panicked"]
              ELSE [pow EXCEPT !.internal = Append(@, [some |-> TRUE,
                                                        trial |-> pow.w[i].trial,
                                                        nonce |-> pow.w[i].nonce]),
                               !.w[i].pc = "done"]
    /\ UNCHANGED node_vars

WorkerStep(i) == WorkerCheck(i) \/ WorkerBody(i) \/ WorkerAfter(i) \/ WorkerSend(i)

Signalled == [i \in SearchWorkers |-> [pow.w[i] EXCEPT !.term = term_send(@)]]

\* the manager's select takes the cancellation of the result channel
ManagerCancel ==
    /\ pow.phase = "searching"
    /\ pow.manager = "select"
    /\ pow.receiver = "dropped"
    /\ pow' = [pow EXCEPT !.w = Signalled, !.closed = TRUE, !.manager = "done"]
    /\ UNCHANGED node_vars

\* the manager's select takes the first result of the internal channel
ManagerResult ==
    /\ pow.phase = "searching"
    /\ pow.manager = "select"
    /\ pow.internal # <<>>
    /\ pow' = IF pow.receiver = "dropped"
              THEN [pow EXCEPT !.w = Signalled, !.internal = Tail(@), !.closed = TRUE,
                               !.manager = "panicked"]
              ELSE [pow EXCEPT !.w = Signalled, !.internal = Tail(@), !.closed = TRUE,
                               !.result = Head(pow.internal), !.manager = "done"]
    /\ UNCHANGED node_vars

ManagerStep == ManagerCancel \/ ManagerResult

\* the caller drops the receiver before it has a result
DropReceiver ==
    /\ pow.phase = "searching"
    /\ pow.receiver = "held"
    /\ ~pow.result.some
    /\ pow' = [pow EXCEPT !.receiver = "dropped"]
    /\ UNCHANGED node_vars

SearchNext ==
    \/ StartSearch
    \/ \E i \in SearchWorkers : WorkerCheck(i)
    \/ \E i \in SearchWorkers : WorkerBody(i)
    \/ \E i \in SearchWorkers : WorkerAfter(i)
    \/ \E i \in SearchWorkers : WorkerSend(i)
    \/ ManagerCancel
    \/ ManagerResult
    \/ DropReceiver

\* every spawned task is scheduled again and again
SearchSpec ==
    /\ Init
    /\ [][SearchNext]_vars
    /\ \A i \in SearchWorkers : WF_vars(WorkerStep(i))
    /\ WF_vars(ManagerStep)

\* the nonces worker i tries
Visits(i) == {n \in 1..MaxSearchNonce : n > i /\ (n - i) % NumOfCores = 0}

SomeNonceQualifies ==
    \/ INITIAL_TRIAL_VALUE <= pow.target
    \/ \E i \in SearchWorkers : \E n \in Visits(i) : Trial(n, pow.hash) <= pow.target

C21_ObjectsHandlerReturns ==
    \A n \in Nodes : received[n].objects # <<>> => worker[n] # "blocked"

\* ------------------------------------------------- inbound requests (C22)
MaxRequestInputs == 2

\* the loop of NodeWorker::run takes an inbound request of a peer outside
\* the two nodes; the call records the request, whether the handler made a
\* reply, whether a response left on the channel and where the worker is
HandleRequest(n) ==
    /\ worker[n] = "running"
    /\ budget.injects < MaxInject
    /\ \E m \in {x \in PeerMessages(n) : x.via = "request"} :
         LET ns == handle_event(NodeState(n), n, m, now)
         IN  /\ Commit(n, ns, net)
             /\ call' = [op |-> "request", made |-> TRUE, node |-> n,
                         command |-> m.command,
                         replied |-> Reply(NodeState(n), m, now).some,
                         responses |-> {x \in ns.out : x.via = "response" /\ x.to = m.from},
                         pc |-> ns.pc]
    /\ budget' = [budget EXCEPT !.injects = @ + 1, !.total = @ + 1]
    /\ UNCHANGED now
    /\ UNCHANGED <<pow, listen, mpsc>>

RequestNext ==
    \/ Internal
    \/ budget.total < MaxRequestInputs /\ Inputs
    \/ budget.total < MaxRequestInputs /\ \E n \in Nodes : HandleRequest(n)

RequestSpec == Init /\ [][RequestNext]_vars

\* C22 as stated: after an inbound request the worker is running, and the
\* reply, when the handler made one, has left as the response.
C22_RequestKeepsWorkerRunning ==
    call.op = "request" =>
      /\ call.pc = "running"
      /\ call.replied => call.responses # {}

\* the same for the requests other than Objects
C22_QueryKeepsWorkerRunning ==
    (call.op = "request" /\ call.command # "Objects") => call.pc = "running"

\* ------------------------------------------------ SendMessage (C23, C24)
\* node n takes the SendMessage command at the head of its channel
TakesSendMessage(n) ==
    /\ worker[n] = "running"
    /\ command_channel[n] # <<>>
    /\ Head(command_channel[n]).type = "SendMessage"
    /\ command_channel'[n] = Tail(command_channel[n])
    /\ budget' = budget

KnownWithKeys(addrs, a) == \E r \in Range(addrs) : r.address = a /\ r.pub # ""
LocalIdentity(addrs, a) == \E r \in Range(addrs) : r.address = a /\ r.priv

\* C23 as stated: a SendMessage from a local identity to a recipient that
\* is not known with its public keys, whether or not an address row for it
\* exists, adds a message WaitingForPubkey, tracks the recipient's tag and
\* leaves the worker running.
C23_UnresolvedRecipientWaits ==
    [][\A n \in Nodes :
          LET command == Head(command_channel[n])
          IN  (/\ TakesSendMessage(n)
               /\ LocalIdentity(addresses[n], command.from)
               /\ ~KnownWithKeys(addresses[n], command.to)) =>
                /\ worker'[n] = "running"
                /\ Len(messages'[n]) = Len(messages[n]) + 1
                /\ messages'[n][Len(messages'[n])].status = "WaitingForPubkey"
                /\ messages'[n][Len(messages'[n])].recipient = command.to
                /\ TagOf(command.to) \in tracked_pubkeys'[n]]_vars

\* C24 as stated: a SendMessage whose sender is not a local identity leaves
\* the worker running and persists no message, inserts no address and
\* enqueues no proof of work.
C24_ForeignSenderRejected ==
    [][\A n \in Nodes :
          (/\ TakesSendMessage(n)
           /\ ~LocalIdentity(addresses[n], Head(command_channel[n]).from)) =>
            /\ worker'[n] = "running"
            /\ messages'[n] = messages[n]
            /\ addresses'[n] = addresses[n]
            /\ pow_channel'[n] = pow_channel[n]]_vars

\* ------------------------------------------- the listener address (C25)
\* listen is the part of a worker that serves GetListenerAddress:
\*   listeners        : swarm.listeners(), in the order the addresses came
\*   pending_commands : NodeWorker.pending_commands, the commands by number
\*   answers          : what was sent on the reply channels of the commands
\*   issued           : how many GetListenerAddress commands were issued
MaxListenCommands == 4
MaxListeners == 2

ListenAddrs == {"/ip4/127.0.0.1", "/ip4/192.168.0.2", "/ip6/::1"}

\* Vec::remove(index), index counted from 0
vec_remove(v, index) ==
    [k \in 1..(Len(v) - 1) |-> IF k <= index THEN v[k] ELSE v[k + 1]]

\* the loop `for i in indexes` of the NewListenAddr branch: remove(i)
\* panics when i is not below the length the vector has by then
RECURSIVE satisfy_pending(_, _, _)
satisfy_pending(st, indexes, address) ==
    IF indexes = <<>> THEN st
    ELSE LET i == Head(indexes)
         IN  IF i >= Len(st.listen.pending_commands) THEN [st EXCEPT !.pc = "panicked"]
             ELSE satisfy_pending(
                    [st EXCEPT
                       !.listen.answers =
                           Append(@, [command |-> st.listen.pending_commands[i + 1],
                                      address |-> address]),
                       !.listen.pending_commands = vec_remove(@, i)],
                    Tail(indexes), address)

\* SwarmEvent::NewListenAddr: the indexes of the pending GetListenerAddress
\* commands are collected first, then each is removed and answered
new_listen_addr(st, address) ==
    satisfy_pending(st, [k \in 1..Len(st.listen.pending_commands) |-> k - 1], address)

\* WorkerCommand::GetListenerAddress
get_listener_address(l, command) ==
    IF l.listeners # <<>>
    THEN [l EXCEPT !.answers = Append(@, [command |-> command, address |-> l.listeners[1]])]
    ELSE [l EXCEPT !.pending_commands = Append(@, command)]

\* the worker takes a GetListenerAddress command of the client
GetListenerAddress(n) ==
    /\ worker[n] = "running"
    /\ listen.issued < MaxListenCommands
    /\ listen' = get_listener_address([listen EXCEPT !.issued = @ + 1], listen.issued + 1)
    /\ UNCHANGED <<now, fresh, addresses, inventory, messages, tracked_pubkeys, worker,
                   engine, command_channel, pow_channel, is_pow_running, waiting_objects,
                   searches, received, stalled, pubkey_notifier, net, recovered, call,
                   budget, pow, mpsc>>

\* the swarm starts to listen on an address and the worker takes the event
NewListenAddr(n) ==
    /\ worker[n] = "running"
    /\ Len(listen.listeners) < MaxListeners
    /\ \E address \in ListenAddrs \ Range(listen.listeners) :
         LET st == new_listen_addr(
                     [listen |-> [listen EXCEPT !.listeners = Append(@, address)],
                      pc |-> worker[n]],
                     address)
         IN  /\ listen' = st.listen
             /\ worker' = [worker EXCEPT ![n] = st.pc]
    /\ UNCHANGED <<now, fresh, addresses, inventory, messages, tracked_pubkeys,
                   engine, command_channel, pow_channel, is_pow_running, waiting_objects,
                   searches, received, stalled, pubkey_notifier, net, recovered, call,
                   budget, pow, mpsc>>

ListenNext ==
    \/ \E n \in Clients : GetListenerAddress(n)
    \/ \E n \in Clients : NewListenAddr(n)
    \/ Tick

ListenSpec == Init /\ [][ListenNext]_vars

\* C25 as stated: once a listen address has arrived the worker runs, no
\* GetListenerAddress is pending, and every command issued so far, queued
\* before or issued after, has been answered with the first listen address.
C25_PendingAllAnswered ==
    \A n \in Clients :
        listen.listeners # <<>> =>
          /\ worker[n] = "running"
          /\ listen.pending_commands = <<>>
          /\ \A c \in 1..listen.issued :
                \E a \in Range(listen.answers) :
                   a.command = c /\ a.address = listen.listeners[1]

\* the same for a worker that got through the NewListenAddr event
C25_OnePendingAnswered ==
    \A n \in Clients :
        (listen.listeners # <<>> /\ worker[n] = "running") =>
          /\ listen.pending_commands = <<>>
          /\ \A c \in 1..listen.issued :
                \E a \in Range(listen.answers) :
                   a.command = c /\ a.address = listen.listeners[1]

\* ------------------------------------- the end of a search (C26, C27)
\* node n takes the NonceCalculated command at the head of its channel
TakesNonceCalculated(n) ==
    /\ worker[n] \in {"running", "blocked"}
    /\ command_channel[n] # <<>>
    /\ Head(command_channel[n]).type = "NonceCalculated"
    /\ command_channel'[n] = Tail(command_channel[n])
    /\ worker'[n] # "startup"

\* what the worker does with NonceCalculated for the object o
Republished(n, o) ==
    /\ Bs58(o.hash) \in Range(InventoryGet(inventory'[n], now))
    /\ \A m \in net' \ net :
          (m.from = n /\ m.command = "Inv") => Bs58(o.hash) \in Range(m.inventory)
    /\ o.kind.type = "Msg" =>
          \A x \in Range(messages'[n]) : x.hash = Bs58(o.hash) => x.status = "Sent"

\* the engine of node n takes the NonceCalculated of a search while the
\* worker has its receiver
EngineTakesNonceCalculated(n) ==
    /\ engine[n] = "running"
    /\ worker[n] # "panicked"
    /\ pow_channel[n] # <<>>
    /\ Head(pow_channel[n]).type = "NonceCalculated"
    /\ pow_channel'[n] = Tail(pow_channel[n])
    /\ engine'[n] # "startup"

\* the nonce is on the row, the worker is told, the next job is started
EngineOrder(n, o) ==
    /\ \A r \in Range(inventory'[n]) : r.hash = Bs58(o.hash) => r.nonce = o.nonce
    /\ command_channel'[n] = Append(command_channel[n], NonceCalculatedCmd(o))
    /\ IF waiting_objects[n] # <<>>
       THEN /\ waiting_objects'[n] = Tail(waiting_objects[n])
            /\ \E s \in searches'[n] \ searches[n] : s.object = Head(waiting_objects[n])
       ELSE ~is_pow_running'[n]

C26_EngineJobsAdvertised ==
    [][\A n \in Nodes :
          /\ EngineTakesNonceCalculated(n) => EngineOrder(n, Head(pow_channel[n]).object)
          /\ (/\ TakesNonceCalculated(n)
              /\ Head(command_channel[n]).obj.expires > now
              /\ \E r \in Rows(n) : r.hash = Bs58(Head(command_channel[n]).obj.hash)) =>
                Republished(n, Head(command_channel[n]).obj)]_vars


\* --------------------------------------------- the queue of the engine (C27)
\* the rows of node n that a job of its engine has to give a nonce, oldest
\* first: store_object appends, so the order is the order of submission
Jobs(n) == SelectSeq(inventory[n], LAMBDA r : r.nonce = NoNonce)

\* the engine of node n still has the job for the row with hash h: its
\* search runs, its result is on the way, or it waits in waiting_objects
Held(n, h) ==
    \/ \E s \in searches[n] : s.via = "queue" /\ Bs58(s.object.hash) = h
    \/ \E c \in Range(pow_channel[n]) :
          c.type = "NonceCalculated" /\ Bs58(c.object.hash) = h
    \/ \E o \in Range(waiting_objects[n]) : Bs58(o.hash) = h

\* the place of the job for the row with hash h: 0 when it is searched or
\* its result is on the way, k when it is the k-th of waiting_objects
Place(n, h) ==
    IF \E k \in 1..Len(waiting_objects[n]) : Bs58(waiting_objects[n][k].hash) = h
    THEN CHOOSE k \in 1..Len(waiting_objects[n]) : Bs58(waiting_objects[n][k].hash) = h
    ELSE 0

\* the jobs are served oldest first: a job submitted later is never ahead
\* of one submitted earlier
InOrder(n) ==
    \A i, j \in 1..Len(Jobs(n)) :
       i < j => /\ Place(n, Jobs(n)[i].hash) <= Place(n, Jobs(n)[j].hash)
                /\ Place(n, Jobs(n)[j].hash) # 0

\* the order of the queue: every row that waits for its nonce is held by
\* the engine, the oldest one being searched and the others queued behind it
\* in the order of submission
C27_NoJobLost ==
    \A n \in Nodes :
       engine[n] # "startup" =>
          /\ \A r \in Range(Jobs(n)) : Held(n, r.hash)
          /\ InOrder(n)

\* a search of node n that has no qualifying nonce never terminates
Endless(n) == \E s \in searches[n] : Qualifies(s.target, s.object.hash) = {}

\* no task of node n can take a step: the worker and the engine are past
\* their startup, neither has a command it can take, no search can end
NothingToDo(n) ==
    /\ worker[n] # "startup"
    /\ engine[n] # "startup"
    /\ ~(worker[n] = "running" /\ command_channel[n] # <<>>
                               /\ Len(pow_channel[n]) < PowChannelCapacity)
    /\ ~(worker[n] = "running" /\ \E m \in net : m.to = n)
    /\ ~(engine[n] = "running" /\ pow_channel[n] # <<>>
                               /\ Len(command_channel[n]) < WorkerChannelCapacity)
    /\ \A s \in searches[n] :
          \/ Qualifies(s.target, s.object.hash) = {}
          \/ IF s.via = "queue" THEN Len(pow_channel[n]) >= PowChannelCapacity
             ELSE Len(command_channel[n]) >= WorkerChannelCapacity

\* C27: PoW jobs are served in submission order and none is lost: every
\* submitted object has its nonce persisted once the tasks of the node have
\* nothing left to do, provided each search terminates.
C27_EveryJobGetsNonce ==
    \A n \in Nodes : NothingToDo(n) => (Jobs(n) = <<>> \/ Endless(n))

\* the same as long as the worker has not panicked
C27_EveryJobGetsNonceWhileWorkerLives ==
    \A n \in Nodes :
       (NothingToDo(n) /\ worker[n] # "panicked") => (Jobs(n) = <<>> \/ Endless(n))


\* ------------------------------------ the two channels of a node (C28)
\* Both channels are futures::channel::mpsc::channel(3). A send puts the
\* message on the queue and, when the queue then holds more than the buffer,
\* parks the sender; send(..).await returns once the sender is not parked.
\* The receiver, taking a message, unparks the sender parked first.
\* mpsc holds, for the node of the client:
\*   command, pow : the senders parked on the command channel of the worker
\*                  and on the command channel of the engine, oldest first
\*   iter         : the EnqueuePoW sends the handler the worker runs has
\*                  still to make
\*   flushing     : the engine has sent NonceCalculated to the worker and
\*                  awaits the end of that send
\*   notified     : the pubkey notifications handled so far
MaxChannelSends == 4
MaxWaiting == 4
MaxNotifications == 1

\* Sender::do_send_b
mpsc_send(queue, parked, msg, sender) ==
    [queue |-> Append(queue, msg),
     parked |-> IF Len(queue) + 1 > CHANNEL_BUFFER THEN Append(parked, sender)
                ELSE parked]

\* Receiver::next_message
mpsc_recv(queue, parked) ==
    [queue |-> Tail(queue),
     parked |-> IF parked # <<>> THEN Tail(parked) ELSE parked]

\* Sender::poll_ready
poll_ready(parked, sender) == sender \notin Range(parked)

\* the worker is at the select! of its loop
WorkerAtLoop(n) ==
    /\ worker[n] = "running"
    /\ mpsc.iter = 0
    /\ poll_ready(mpsc.pow, "worker")

\* the engine is at the select! of its loop
EngineAtLoop(n) == engine[n] = "running" /\ ~mpsc.flushing

\* NodeClient::send_message: the facade sends SendMessage and awaits the send
ChannelClientSend(n) ==
    /\ budget.sends < MaxChannelSends
    /\ poll_ready(mpsc.command, "client")
    /\ LET sent == mpsc_send(command_channel[n], mpsc.command,
                             SendMessageCmd("a", "a"), "client")
       IN  /\ command_channel' = [command_channel EXCEPT ![n] = sent.queue]
           /\ mpsc' = [mpsc EXCEPT !.command = sent.parked]
    /\ budget' = [budget EXCEPT !.sends = @ + 1]
    /\ UNCHANGED <<now, fresh, addresses, inventory, messages, tracked_pubkeys, worker,
                   engine, pow_channel, is_pow_running, waiting_objects, searches,
                   received, stalled, pubkey_notifier, net, recovered, call, pow,
                   listen>>

\* the loop of NodeWorker::run takes a command: SendMessage has one object
\* to enqueue, NonceCalculated none
ChannelWorkerTake(n) ==
    /\ WorkerAtLoop(n)
    /\ command_channel[n] # <<>>
    /\ LET got == mpsc_recv(command_channel[n], mpsc.command)
       IN  /\ command_channel' = [command_channel EXCEPT ![n] = got.queue]
           /\ mpsc' = [mpsc EXCEPT
                         !.command = got.parked,
                         !.iter = IF Head(command_channel[n]).type = "SendMessage"
                                  THEN 1 ELSE 0]
    /\ UNCHANGED <<now, fresh, addresses, inventory, messages, tracked_pubkeys, worker,
                   engine, pow_channel, is_pow_running, waiting_objects, searches,
                   received, stalled, pubkey_notifier, net, recovered, call, budget,
                   pow, listen>>

\* the loop of NodeWorker::run takes a pubkey notification for a tracked
\* tag: handle_pubkey_notification enqueues one object for each message
\* that waits for the key
ChannelNotification(n) ==
    /\ WorkerAtLoop(n)
    /\ mpsc.notified < MaxNotifications
    /\ \E waiting \in 1..MaxWaiting :
         mpsc' = [mpsc EXCEPT !.iter = waiting, !.notified = @ + 1]
    /\ UNCHANGED <<now, fresh, addresses, inventory, messages, tracked_pubkeys, worker,
                   engine, command_channel, pow_channel, is_pow_running,
                   waiting_objects, searches, received, stalled, pubkey_notifier, net,
                   recovered, call, budget, pow, listen>>

\* NodeWorker::enqueue_pow: the next send of the handler the worker runs
ChannelWorkerEnqueue(n) ==
    /\ worker[n] = "running"
    /\ mpsc.iter > 0
    /\ poll_ready(mpsc.pow, "worker")
    /\ LET sent == mpsc_send(pow_channel[n], mpsc.pow, EnqueuePoW(NoObject), "worker")
       IN  /\ pow_channel' = [pow_channel EXCEPT ![n] = sent.queue]
           /\ mpsc' = [mpsc EXCEPT !.pow = sent.parked, !.iter = @ - 1]
    /\ UNCHANGED <<now, fresh, addresses, inventory, messages, tracked_pubkeys, worker,
                   engine, command_channel, is_pow_running, waiting_objects, searches,
                   received, stalled, pubkey_notifier, net, recovered, call, budget,
                   pow, listen>>

\* the loop of ProofOfWorkWorker::run takes a command: EnqueuePoW is queued
\* or searched at once, NonceCalculated is sent on to the worker
ChannelEngineTake(n) ==
    /\ EngineAtLoop(n)
    /\ pow_channel[n] # <<>>
    /\ LET got == mpsc_recv(pow_channel[n], mpsc.pow)
           command == Head(pow_channel[n])
           queued == enqueue_pow(NodeState(n), command.object, now)
           sent == mpsc_send(command_channel[n], mpsc.command,
                             NonceCalculatedCmd(command.object), "engine")
       IN  /\ pow_channel' = [pow_channel EXCEPT ![n] = got.queue]
           /\ IF command.type = "EnqueuePoW"
              THEN /\ is_pow_running' = [is_pow_running EXCEPT ![n] = queued.running]
                   /\ waiting_objects' = [waiting_objects EXCEPT ![n] = queued.waiting]
                   /\ searches' = [searches EXCEPT ![n] = queued.spawned]
                   /\ mpsc' = [mpsc EXCEPT !.pow = got.parked]
                   /\ UNCHANGED command_channel
              ELSE /\ command_channel' = [command_channel EXCEPT ![n] = sent.queue]
                   /\ mpsc' = [mpsc EXCEPT !.pow = got.parked,
                                           !.command = sent.parked,
                                           !.flushing = TRUE]
                   /\ UNCHANGED <<is_pow_running, waiting_objects, searches>>
    /\ UNCHANGED <<now, fresh, addresses, inventory, messages, tracked_pubkeys, worker,
                   engine, received, stalled, pubkey_notifier, net, recovered, call,
                   budget, pow, listen>>

\* the send of NonceCalculated has returned: the engine starts the next job
ChannelEngineNext(n) ==
    /\ engine[n] = "running"
    /\ mpsc.flushing
    /\ poll_ready(mpsc.command, "engine")
    /\ mpsc' = [mpsc EXCEPT !.flushing = FALSE]
    /\ IF waiting_objects[n] # <<>>
       THEN /\ waiting_objects' = [waiting_objects EXCEPT ![n] = Tail(@)]
            /\ searches' = [searches EXCEPT
                              ![n] = @ \cup {Search(Head(waiting_objects[n]), "queue", now)}]
            /\ UNCHANGED is_pow_running
       ELSE /\ is_pow_running' = [is_pow_running EXCEPT ![n] = FALSE]
            /\ UNCHANGED <<waiting_objects, searches>>
    /\ UNCHANGED <<now, fresh, addresses, inventory, messages, tracked_pubkeys, worker,
                   engine, command_channel, pow_channel, received, stalled,
                   pubkey_notifier, net, recovered, call, budget, pow, listen>>

\* the task of Object::do_proof_of_work has its nonce and sends
\* NonceCalculated to the engine on its own clone of the sender
ChannelSearchDone(n) ==
    /\ \E s \in searches[n] :
         LET sent == mpsc_send(pow_channel[n], mpsc.pow,
                               PowNonceCalculated(s.object), "search")
         IN  /\ searches' = [searches EXCEPT ![n] = @ \ {s}]
             /\ pow_channel' = [pow_channel EXCEPT ![n] = sent.queue]
             /\ mpsc' = [mpsc EXCEPT !.pow = sent.parked]
    /\ UNCHANGED <<now, fresh, addresses, inventory, messages, tracked_pubkeys, worker,
                   engine, command_channel, is_pow_running, waiting_objects, received,
                   stalled, pubkey_notifier, net, recovered, call, budget, pow, listen>>

ChannelNext ==
    \/ \E n \in Clients : ChannelClientSend(n)
    \/ \E n \in Clients : ChannelWorkerTake(n)
    \/ \E n \in Clients : ChannelNotification(n)
    \/ \E n \in Clients : ChannelWorkerEnqueue(n)
    \/ \E n \in Clients : ChannelEngineTake(n)
    \/ \E n \in Clients : ChannelEngineNext(n)
    \/ \E n \in Clients : ChannelSearchDone(n)

ChannelSpec == Init /\ [][ChannelNext]_vars

\* the worker awaits its send of EnqueuePoW on the full channel of the engine
WorkerAwaitsEngine(n) == worker[n] = "running" /\ ~poll_ready(mpsc.pow, "worker")

\* the engine awaits its send of NonceCalculated on the full channel of the
\* worker
EngineAwaitsWorker(n) ==
    engine[n] = "running" /\ mpsc.flushing /\ ~poll_ready(mpsc.command, "engine")

C28_BlockedForever ==
    [][\A n \in Clients :
          (WorkerAwaitsEngine(n) /\ EngineAwaitsWorker(n)) =>
             (WorkerAwaitsEngine(n) /\ EngineAwaitsWorker(n))']_vars


\* ------------------------------------------ the two startup scans (C29)
\* a peer outside sends the pubkey object of b by gossip and the loop of
\* NodeWorker::run takes it
PubkeyEvent(n) ==
    /\ worker[n] = "running"
    /\ budget.injects < MaxInject
    /\ budget.total < MaxInputs
    /\ Commit(n, handle_event(NodeState(n), n,
                              NetMsg("gossip", Env, n, "Objects", <<>>,
                                     <<Worked(PeerPubkey("b", TRUE, now), now)>>),
                              now),
              net)
    /\ budget' = [budget EXCEPT !.injects = @ + 1, !.total = @ + 1]
    /\ UNCHANGED <<now, call>>
    /\ UNCHANGED <<pow, listen, mpsc>>

\* the node of the client with the handler's sink served, its user sending
\* messages, the pubkey of b arriving and the process being started again
StartupNext ==
    \/ \E n \in Clients : WorkerStartup(n)
    \/ \E n \in Clients : EngineStartup(n)
    \/ \E n \in Clients : HandleCommand(n)
    \/ \E n \in Clients : EngineCommand(n)
    \/ \E n \in Clients : SearchDone(n)
    \/ \E n \in Clients : ServeSink(n)
    \/ \E n \in Clients : HandlePubkeyNotification(n)
    \/ \E n \in Clients : ClientSendMessage(n)
    \/ \E n \in Clients : PubkeyEvent(n)
    \/ \E n \in Clients : Restart(n)

StartupSpec == Init /\ [][StartupNext]_vars

\* some task of node n has the PoW job of the object with hash h: the
\* command that submits it, its search, its place in the queue, its result
HasJob(n, h) ==
    \/ \E c \in Range(pow_channel[n]) : Bs58(c.object.hash) = h
    \/ \E s \in searches[n] : Bs58(s.object.hash) = h
    \/ \E o \in Range(waiting_objects[n]) : Bs58(o.hash) = h
    \/ \E c \in Range(command_channel[n]) :
          c.type = "NonceCalculated" /\ Bs58(c.obj.hash) = h

\* both startup scans of node n are over and both tasks run
Started(n) == worker[n] = "running" /\ engine[n] = "running"

C29_WaitingForPubkeyTracked ==
    \A n \in Nodes :
       (Started(n) /\ recovered[n].done) =>
          \A m \in Messages(n) :
             (m.status = "WaitingForPubkey" /\ pubkey_notifier[n] = <<>>) =>
                TagOf(m.recipient) \in tracked_pubkeys[n]


\* ------------------------------------ one object for a message (C30)
\* the Msg objects node n advertises that one of its identities has signed
AdvertisedOwnMsg(n) ==
    {r \in Rows(n) :
        /\ r.hash \in Range(InventoryGet(inventory[n], now))
        /\ r.data.type = "Msg"
        /\ \E a \in Range(addresses[n]) : a.priv /\ a.address = r.signature}

\* C30: a message gives rise to at most one Msg object, also across a
\* restart: when the node stopped after the message and its object were
\* stored and before the PoW finished, every advertised Msg object created
\* locally corresponds to a stored message with the same hash, so that only
\* one advertised object is built from the message.
C30_OneObjectPerMessage ==
    \A n \in Nodes :
       \A r \in AdvertisedOwnMsg(n) :
          r.hash \in recovered[n].objects => \E m \in Messages(n) : m.hash = r.hash

\* the same for every advertised Msg object of a run without a restart
C30_OneObjectPerMessageInOneRun ==
    budget.restarts = 0 =>
       \A n \in Nodes :
          /\ \A r \in AdvertisedOwnMsg(n) : \E m \in Messages(n) : m.hash = r.hash
          /\ Cardinality(AdvertisedOwnMsg(n)) <= Cardinality(Messages(n))


\* ------------------------------------ the pubkey notification (C31, C32)
\* the worker of node n takes the notification at the head of its channel
TakesNotification(n) ==
    /\ worker[n] = "running"
    /\ pubkey_notifier[n] # <<>>
    /\ pubkey_notifier'[n] = Tail(pubkey_notifier[n])
    /\ worker'[n] # "startup"
    /\ budget' = budget

\* the messages of node n that wait for the pubkey of the address with the
\* tag
WaitingFor(n, tag) ==
    {m \in Messages(n) : m.status = "WaitingForPubkey" /\ TagOf(m.recipient) = tag}

\* the EnqueuePoW commands the step has put on the channel of the engine
Enqueued(n) ==
    IF Len(pow_channel'[n]) >= Len(pow_channel[n])
    THEN {pow_channel'[n][i] : i \in (Len(pow_channel[n]) + 1)..Len(pow_channel'[n])}
    ELSE {}

\* the message m is now WaitingForPOW under the hash of an object that the
\* step has enqueued
Moved(n, m) ==
    \E x \in Range(messages'[n]) :
       /\ x.id = m.id
       /\ x.status = "WaitingForPOW"
       /\ x.hash # m.hash
       /\ \E c \in Enqueued(n) :
             /\ c.type = "EnqueuePoW"
             /\ c.object.kind.type = "Msg"
             /\ Bs58(c.object.hash) = x.hash

AskedFor(n, tag) ==
    \/ \E c \in Range(pow_channel[n]) :
          c.object.kind.type = "Getpubkey" /\ c.object.kind.tag = tag
    \/ \E r \in Rows(n) :
          /\ r.data.type = "Getpubkey" /\ r.data.tag = tag
          /\ LocalIdentity(addresses[n], r.signature)

AtLoop(n) == worker[n] = "running"
Tags(n) == {TagOf(m.recipient) : m \in Messages(n)}
\* C32: between two iterations of the worker loop a tag is tracked if and only
\* if some stored message addressed to that tag has status WaitingForPubkey.
C32_TrackedIffWaiting ==
    \A n \in Nodes : AtLoop(n) =>
        \A tag \in tracked_pubkeys[n] \cup Tags(n) :
            tag \in tracked_pubkeys[n] <=> WaitingFor(n, tag) # {}
C32_Witness ==
    \E n \in Nodes :
        /\ AtLoop(n)
        /\ budget.restarts > 0
        /\ \E tag \in tracked_pubkeys[n] : WaitingFor(n, tag) # {}


\* ---------------------------------------------------------------------------
\* Handler::handle_inv (handler.rs 75-94) as the worker runs it on a message
\* taken from the network.
TakesInv(n, m) ==
    /\ m \in net
    /\ m \notin net'
    /\ m.to = n
    /\ m.command = "Inv"
    /\ worker[n] = "running"
Lacking(n, hashes) ==
    SelectSeq(hashes, LAMBDA h : \A r \in Rows(n) : r.hash # h)
\* the network holds each message once: a reply equal to a message in flight
\* adds nothing to it
GetDataReply(n, m) ==
    NetMsg(IF m.via = "request" THEN "response" ELSE "request", n, m.from,
           "GetData", Lacking(n, m.inventory), <<>>)
\* C33: handling Inv answers with one GetData that lists exactly the received
\* hashes the node has no row for, answers nothing when there is none, and
\* leaves the three repositories as they were.
C33_InvAnsweredByGetData ==
    [][\A n \in Nodes : \A m \in net : TakesInv(n, m) =>
          /\ IF Lacking(n, m.inventory) # <<>>
             THEN net' = (net \ {m}) \cup {GetDataReply(n, m)}
             ELSE net' = net \ {m}
          /\ inventory'[n] = inventory[n]
          /\ messages'[n] = messages[n]
          /\ addresses'[n] = addresses[n]]_vars
C33_WitnessGetData ==
    \E x \in net : x.command = "GetData" /\ x.from \in Nodes /\ x.inventory # <<>>

C33_Witness ==
    \E x \in net :
        /\ x.command = "GetData"
        /\ x.from \in Nodes
        /\ x.to \in Nodes
        /\ x.inventory # <<>>
        /\ Lacking(x.from, x.inventory) = x.inventory


\* ---------------------------------------------------------------------------
\* Handler::handle_objects (handler.rs 96-162) on an Objects message that is
\* delivered to a node and later delivered to it again.
MaxDeliveries == 2

\* a peer outside the two nodes delivers an Objects message to node n
Deliver(n) ==
    /\ worker[n] = "running"
    /\ budget.injects = 0
    /\ \E m \in PeerMessages(n) :
         /\ m.command = "Objects"
         /\ Commit(n, handle_event(NodeState(n), n, m, now), net)
    /\ budget' = [budget EXCEPT !.injects = @ + 1, !.total = @ + 1]
    /\ call' = [op |-> "handle_objects", to |-> n, at |-> now, made |-> TRUE]
    /\ UNCHANGED now
    /\ UNCHANGED <<pow, listen, mpsc>>

\* the peer delivers the message it delivered last once more, after the
\* handler has returned from the first delivery
Redeliver(n) ==
    /\ worker[n] = "running"
    /\ budget.injects \in 1..(MaxDeliveries - 1)
    /\ call.to = n
    /\ received[n] # NoMessage
    /\ Commit(n, handle_event(NodeState(n), n,
                              NetMsg(received[n].via, Env, n, "Objects", <<>>,
                                     received[n].objects), now), net)
    /\ budget' = [budget EXCEPT !.injects = @ + 1, !.total = @ + 1]
    /\ UNCHANGED <<now, call>>
    /\ UNCHANGED <<pow, listen, mpsc>>

DeliveryNext ==
    \/ \E n \in Nodes : Deliver(n)
    \/ \E n \in Nodes : Redeliver(n)
    \/ \E n \in Nodes : ServeSink(n)
    \/ \E n \in Nodes : HandleCommand(n)
    \/ \E n \in Nodes : HandleEvent(n)
    \/ \E n \in Nodes : HandlePubkeyNotification(n)
    \/ \E n \in Nodes : SearchDone(n)
    \/ Tick

DeliverySpec == Init /\ [][DeliveryNext]_vars

SecondDelivery(n) ==
    /\ budget.injects >= 1
    /\ budget'.injects = budget.injects + 1
    /\ call.to = n
NothingChanges(n) ==
    /\ inventory'[n] = inventory[n]
    /\ messages'[n] = messages[n]
    /\ addresses'[n] = addresses[n]
    /\ Broadcasts(command_channel'[n]) = Broadcasts(command_channel[n])
    /\ net' = net
    /\ worker'[n] = "running"
AllStored(n) ==
    \A o \in Range(received[n].objects) : HasObject(inventory[n], Bs58(o.hash))
DispatchesGetpubkey(n) ==
    /\ worker[n] = "blocked"
    /\ stalled[n] # <<>>
    /\ Head(stalled[n]).kind.type = "Getpubkey"
    /\ stalled'[n] # stalled[n]
    /\ worker'[n] \in {"running", "blocked"}
Spawned(n) == searches'[n] \ searches[n]
IdentitiesTagged(n, tag) == {i \in Range(addresses[n]) : i.priv /\ i.tag = tag}
CarriesKeysOf(o, i) ==
    /\ o.kind.type = "Pubkey"
    /\ o.kind.tag = i.tag
    /\ o.kind.encrypted.plain.keys = i.pub
    /\ o.nonce = NoNonce
RipeOfKeys(keys) == IF keys \in Addrs THEN keys ELSE "e"
\* the key pairs a peer may enclose in a Pubkey object for address a: the
\* pair of a and a pair of its own
EnclosedKeys(a) == {a, "e"}
PubkeyEnclosing(a, keys, t) ==
    ObjectNew(t + PUBKEY_TTL_DAYS, "e",
              PubkeyKind(TagOf(a), Encrypt(TagOf(a),
                            [wf |-> TRUE, sender |-> "", dest |-> "", keys |-> keys], 0)))

\* a peer outside sends by gossip a Pubkey object tagged for address a and
\* encrypted with the key every holder of the address derives from its ripe
KeysEvent(n) ==
    /\ worker[n] = "running"
    /\ budget.injects < MaxInject
    /\ budget.total < MaxInputs
    /\ \E a \in Addrs : \E keys \in EnclosedKeys(a) :
         Commit(n, handle_event(NodeState(n), n,
                                NetMsg("gossip", Env, n, "Objects", <<>>,
                                       <<Worked(PubkeyEnclosing(a, keys, now), now)>>),
                                now),
                net)
    /\ budget' = [budget EXCEPT !.injects = @ + 1, !.total = @ + 1]
    /\ UNCHANGED <<now, call>>
    /\ UNCHANGED <<pow, listen, mpsc>>

KeysNext ==
    \/ \E n \in Clients : HandleCommand(n)
    \/ \E n \in Clients : EngineCommand(n)
    \/ \E n \in Clients : SearchDone(n)
    \/ \E n \in Clients : ServeSink(n)
    \/ \E n \in Clients : HandlePubkeyNotification(n)
    \/ \E n \in Clients : ClientSendMessage(n)
    \/ \E n \in Clients : KeysEvent(n)

KeysSpec == Init /\ [][KeysNext]_vars

Posts(i) ==
    /\ pow.phase = "searching"
    /\ pow.w[i].pc = "send"
    /\ pow'.w[i].pc = "done"
\* C37: the caller receives at most one (trial, nonce), its trial is at most
\* the target, and no worker posts a pair whose trial is above the target,
\* whether it left its loop on a qualifying nonce or on the signal.
C37_OneQualifyingResult ==
    /\ [](pow.phase = "searching" =>
            /\ pow.result.some => pow.result.trial <= pow.target
            /\ \A k \in 1..Len(pow.internal) : pow.internal[k].trial <= pow.target
            /\ \A i \in SearchWorkers :
                  pow.w[i].pc = "send" => pow.w[i].trial <= pow.target)
    /\ [][(pow.phase = "searching" /\ pow.result.some) => pow'.result = pow.result]_vars
    /\ [][\A i \in SearchWorkers : Posts(i) => pow.w[i].trial <= pow.target]_vars
\* the caller has its pair, a second pair was posted and is left in the
\* channel, and a worker stopped on the signal above the target
C37_Witness ==
    /\ pow.phase = "searching"
    /\ pow.result.some
    /\ \E i \in SearchWorkers :
          pow.w[i].pc = "done" /\ pow.w[i].term = "gone" /\ pow.w[i].trial > pow.target


\* C38: no search worker fails when it posts its pair: the post is accepted
\* or skipped, the internal channel being closed or not.
C38_NoWorkerFailsPosting ==
    pow.phase = "searching" => \A i \in SearchWorkers : pow.w[i].pc # "panicked"


\* ---------------------------------------------------------------------------
\* get_pow_target for an object at or past its expiry (core/src/pow.rs 43-62).
PayloadBytes(o) == CborLen(o.kind) + NETWORK_MIN_EXTRA_BYTES + 8
Asked(v) == IF v = 0 THEN NETWORK_MIN_NONCE_TRIALS_PER_BYTE ELSE v
\* C39: for an object whose expires is at or before now the target is the
\* target for ttl = 0, 2^64 / (nonce_trials_per_byte * payload_bytes).
C39_ExpiredTargetIsTtlZero ==
    call.op = "get_pow_target" =>
      \A i \in 1..2 : call.ttl[i] <= 0 =>
         \A j \in 1..2 :
            call.target[i][j] =
               TWO_POW_64 \div (Asked(call.nonce_trials_per_byte[j]) * PayloadBytes(call.object))


\* ---------------------------------------------------------------------------
\* A nonce found at one clock reading, checked at a later one before the
\* expiry (core/src/pow.rs 25-62, messages.rs 81-100, handler.rs 121-133).
Nonces == 0..MaxNonce
\* the first reading of the call is the later one, before the expiry
LaterBeforeExpiry == 0 < call.ttl[1] /\ call.ttl[1] <= call.ttl[2]
\* C40: a nonce that check_pow accepts against the target computed for an
\* object at time t is accepted against the target computed for the same
\* object at every later time before its expiry.
C40_PowOutlastsTime ==
    call.op = "get_pow_target" =>
      (LaterBeforeExpiry =>
         \A j \in 1..2 : \A nonce \in Nonces :
            check_pow(call.target[2][j], nonce, call.object.hash) = "Ok"
              => check_pow(call.target[1][j], nonce, call.object.hash) = "Ok")
\* an object whose own nonce met the target of the earlier reading, read
\* again later with a larger target that further nonces meet
C40_Witness ==
    /\ call.op = "get_pow_target"
    /\ 0 < call.ttl[1] /\ call.ttl[1] < call.ttl[2]
    /\ call.object.nonce \in Nonces
    /\ check_pow(call.target[2][1], call.object.nonce, call.object.hash) = "Ok"
    /\ check_pow(call.target[1][1], call.object.nonce, call.object.hash) = "Ok"
    /\ \E nonce \in Nonces :
          /\ check_pow(call.target[2][1], nonce, call.object.hash) # "Ok"
          /\ check_pow(call.target[1][1], nonce, call.object.hash) = "Ok"

====
